---------------------------- MODULE Spec2Model ----------------------------
(***************************************************************************)
(* iCLASS tag emulation (armsrc/iclass.c: SimulateIClass and               *)
(* doIClassSimulation) as a state machine.  One action per branch of the   *)
(* dispatcher's if/else chain; each action is one iteration of the         *)
(* simulation loop: receive a frame, dispatch, transmit.                   *)
(*                                                                         *)
(* Bytes are integers 0..255, blocks are sequences of 8 bytes, frames and  *)
(* waveforms are sequences of bytes.                                       *)
(***************************************************************************)
EXTENDS Integers, Sequences, FiniteSets, TLC

(***************************************************************************)
(* Byte arithmetic                                                         *)
(***************************************************************************)
RECURSIVE XorN(_, _, _)
XorN(a, b, bits) ==
    IF bits = 0 THEN 0
    ELSE (((a % 2) + (b % 2)) % 2) + (2 * XorN(a \div 2, b \div 2, bits - 1))

\* 4-bit xor table, evaluated once
Xor4 == [a \in 0..15 |-> [b \in 0..15 |-> XorN(a, b, 4)]]

Xor8(a, b) == (16 * Xor4[a \div 16][b \div 16]) + Xor4[a % 16][b % 16]

Xor16(a, b) == (256 * Xor8(a \div 256, b \div 256)) + Xor8(a % 256, b % 256)

\* (x & mask) != 0 for a single-bit mask
BitSet(x, mask) == (x \div mask) % 2 = 1

XorBlock(x, y) == [i \in 1..Len(x) |-> Xor8(x[i], y[i])]

(***************************************************************************)
(* CRC (common/iso14443crc.c, preset CRC_ICLASS)                           *)
(***************************************************************************)
CRC_ICLASS == 57362

\* one byte into the CRC register
UpdateCrc14443(ch, wCrc) ==
    LET c1 == Xor8(ch, wCrc % 256)
        c2 == Xor8(c1, (c1 * 16) % 256)
    IN Xor16(Xor16(wCrc \div 256, c2 * 256), Xor16((c2 * 8) % 65536, c2 \div 16))

\* the register after data[i..length], starting from wCrc
RECURSIVE CrcOver(_, _, _, _)
CrcOver(data, i, length, wCrc) ==
    IF i > length THEN wCrc
    ELSE CHOOSE r \in {CrcOver(data, i + 1, length, w) :
                          w \in {UpdateCrc14443(data[i], wCrc)}} : TRUE

\* the two CRC bytes, in transmission order
ComputeCrc14443(CrcType, data, length) ==
    CHOOSE r \in {<<w % 256, w \div 256>> : w \in {CrcOver(data, 1, length, CrcType)}} : TRUE

\* data[0..len-1] followed by its CRC
AppendCrc(data, len) == SubSeq(data, 1, len) \o ComputeCrc14443(CRC_ICLASS, data, len)

(***************************************************************************)
(* Anticollision CSN and tag-side frame encoding                           *)
(***************************************************************************)
rotateCSN(originalCSN) ==
    [i \in 1..8 |->
        ((originalCSN[i] \div 8) + (originalCSN[(i % 8) + 1] * 32)) % 256]

encode_4bits == <<170, 106, 154, 90, 166, 102, 150, 86,
                  169, 105, 153, 89, 165, 101, 149, 85>>

RECURSIVE EncodeBytes(_, _)
EncodeBytes(cmd, n) ==
    IF n = 0 THEN <<>>
    ELSE EncodeBytes(cmd, n - 1)
         \o <<encode_4bits[(cmd[n] % 16) + 1], encode_4bits[(cmd[n] \div 16) + 1]>>

\* SOF 0x1D, two waveform bytes per data byte, EOF 0xB8
CodeIso15693AsTag(cmd, len) == <<29>> \o EncodeBytes(cmd, len) \o <<184>>

\* SOF only
CodeIClassTagSOF == <<29>>

(***************************************************************************)
(* Protocol constants (include/protocols.h, armsrc/iclass.h)               *)
(***************************************************************************)
ICLASS_CMD_ACTALL == 10
ICLASS_CMD_READ_OR_IDENTIFY == 12
ICLASS_CMD_SELECT == 129
ICLASS_CMD_READCHECK_KD == 136
ICLASS_CMD_READCHECK_KC == 24
ICLASS_CMD_CHECK_KD == 5
ICLASS_CMD_CHECK_KC == 149
ICLASS_CMD_HALT == 0
ICLASS_CMD_READ4 == 6
ICLASS_CMD_UPDATE == 135
ICLASS_CMD_PAGESEL == 132
ISO15693_INVENTORY == 38

ICLASS_SIM_MODE_CSN == 0
ICLASS_SIM_MODE_CSN_DEFAULT == 1
ICLASS_SIM_MODE_READER_ATTACK == 2
ICLASS_SIM_MODE_FULL == 3
ICLASS_SIM_MODE_EXIT_AFTER_MAC == 5

USB_CMD_DATA_SIZE == 512
\* delays in ticks of the SSP clock (iso15693.c lines 69 and 72, iclass.c line 64)
DELAY_READER_TO_ARM == 8
DELAY_TAG_TO_ARM == 32
DELAY_ICLASS_VCD_TO_VICC_SIM == 140 - 24
\* ticks of the 3.39 MHz clock of the reader side (iso15693.c line 73, iclass.c
\* line 66)
DELAY_ARM_TO_TAG == 16
DELAY_ICLASS_VICC_TO_VCD_READER == 1024
CARD_MEMORY_SIZE == 4096

\* emulator memory in 8-byte blocks
EmBlocks == CARD_MEMORY_SIZE \div 8

\* number of entries of cipher_state_KC[] and cipher_state_KD[]
CipherSlots == 8

(***************************************************************************)
(* Authentication primitive (optimized_cipher.c).  Only its call contract  *)
(* is used: a cipher state is derived from (e-purse, key); the MAC is a    *)
(* 4-byte function of (cipher state, reader nonce, key).  The 4 bytes are  *)
(* produced by a checksum stand-in so that replies are byte sequences.     *)
(***************************************************************************)
opt_doTagMAC_1(cc, div_key) == [cc |-> cc, key |-> div_key]

opt_doTagMAC_2(init, nr, div_key) ==
    LET m == init.cc \o init.key \o nr \o div_key
    IN ComputeCrc14443(CRC_ICLASS, m, Len(m)) \o ComputeCrc14443(25443, m, Len(m))

Zero8 == <<0, 0, 0, 0, 0, 0, 0, 0>>
FF8 == <<255, 255, 255, 255, 255, 255, 255, 255>>

\* marker of a cipher-state slot that was never assigned
Uninit == [cc |-> <<>>, key |-> <<>>]

\* values an indeterminate (unassigned or out-of-array) slot may be read as
GarbageStates == {opt_doTagMAC_1(Zero8, Zero8), opt_doTagMAC_1(FF8, FF8)}

\* what a read of arr[idx] can yield; idx >= CipherSlots is memory past the array
CipherRead(arr, idx) ==
    IF idx \in DOMAIN arr /\ arr[idx] # Uninit
    THEN (IF idx < CipherSlots THEN {arr[idx]} ELSE {arr[idx]} \cup GarbageStates)
    ELSE GarbageStates

\* arr[idx] = st; a store at idx >= CipherSlots lands past the end of the array
\* (what else it overwrites there is not tracked)
CipherWrite(arr, idx, st) == (idx :> st) @@ arr

(***************************************************************************)
(* Host-supplied inputs                                                    *)
(***************************************************************************)
DefaultCSN == <<3, 31, 236, 138, 247, 255, 18, 224>>

\* the i-th CSN (from 0) the host passes in datain
HostCSN(i) == IF i = 0 THEN DefaultCSN ELSE IF i = 1 THEN FF8 ELSE <<i, 0, 0, 0, 0, 0, 247, 224>>

\* configuration blocks: byte 4 bit 0x10 = single page, byte 7 bit 0x80 =
\* personalization mode, byte 5 bit 0x80 = 16k-bit pages
ConfSingleApp == <<18, 255, 255, 255, 127, 31, 255, 60>>
ConfMultiApp == <<18, 255, 255, 255, 111, 31, 255, 60>>
ConfMultiPers == <<18, 255, 255, 255, 111, 31, 255, 188>>

Images == {"single", "multi"}

\* contents of the emulator memory as loaded by the host (32 blocks per page)
ImageBlock(img, addr) ==
    LET page == addr \div 32
        blk == addr % 32
    IN CASE blk = 0 -> IF page = 0 THEN DefaultCSN ELSE <<page, 0, 0, 0, 0, 0, 0, 0>>
         [] blk = 1 -> IF img = "single" THEN ConfSingleApp
                       ELSE IF page % 2 = 0 THEN ConfMultiApp ELSE ConfMultiPers
         [] blk = 2 -> <<254 - page, 255, 255, 255, 255, 255, 255, 255>>
         [] blk = 3 -> <<16 + page, 1, 2, 3, 4, 5, 6, 7>>
         [] blk = 4 -> <<32 + page, 7, 6, 5, 4, 3, 2, 1>>
         [] OTHER -> <<page, blk, 170, 85, 170, 85, 170, 85>>

\* blocks an access outside the emulator memory may read
OobBlocks == {Zero8, FF8}

\* the 8 bytes at emulator + 8*addr: em holds the blocks written so far
EmReadSet(img, em, addr) ==
    IF addr >= EmBlocks THEN OobBlocks
    ELSE IF addr \in DOMAIN em THEN {em[addr]}
    ELSE {ImageBlock(img, addr)}

\* memcpy(emulator + 8*addr, blk, 8); a store outside the emulator memory is not tracked
EmWrite(em, addr, blk) == IF addr >= EmBlocks THEN em ELSE (addr :> blk) @@ em

(***************************************************************************)
(* Model bounds                                                            *)
(***************************************************************************)
\* accepted Update commands per session; an accepted Update may in addition be
\* repeated once, immediately
MaxUpdates == 1
\* largest page byte a PageSel frame carries
MaxPageByte == 8
\* CSNs passed to the reader-attack mode
MaxCSNs == 2

VARIABLES
    simType, numberOfCSNS, csn_i, mac_responses,      \* SimulateIClass
    simulationMode, pc, buttonPressed,
    em_image, emulator,                               \* BigBuf emulator memory
    csn_data, anticoll_data, conf_block, card_challenge_data,
    diversified_key_d, diversified_key_c, diversified_key,
    cipher_state_KC, cipher_state_KD, cipher_state,
    current_page, page_size, max_page, personalization_mode,
    chip_state, resp_cc,
    receivedCmd, modulated_response,
    scn, n_updates, epurse_update,                    \* observers
    DecodeReader, samples, reader_in, reader_pc,      \* GetIso15693CommandFromReader
    reader_ret, last_bit, reader_oob,                 \* observers
    DecodeTag, tag_in, tag_pc, tag_ret, tag_eof_time, \* GetIso15693AnswerFromTag
    tag_oob,                                          \* observer
    Uart, Demod, snoop,                               \* SnoopIClass
    DecodeTagFSK, fsk,                                \* GetIso15693AnswerFromTagFSK
    reader_eof_time, response_time, transmitted,      \* doIClassSimulation timing
    snoop15693,                                       \* SnoopIso15693
    sim15693,                                         \* SimTagIso15693
    selTag                                            \* selectIclassTag

simVars == <<simType, numberOfCSNS, simulationMode, em_image>>
readerVars == <<DecodeReader, samples, reader_in, reader_pc, reader_ret, last_bit,
                reader_oob>>
tagVars == <<DecodeTag, tag_in, tag_pc, tag_ret, tag_eof_time, tag_oob>>
sniffVars == <<Uart, Demod, snoop>>
fskVars == <<DecodeTagFSK, fsk>>
timeVars == <<reader_eof_time, response_time, transmitted>>
extVars == <<sniffVars, fskVars, timeVars, snoop15693, sim15693, selTag>>
decVars == <<readerVars, tagVars, extVars>>
idVars == <<csn_data, anticoll_data, conf_block, page_size, max_page>>
keyVars == <<diversified_key_d, diversified_key_c>>
ctxVars == <<cipher_state, diversified_key>>
ciphVars == <<cipher_state_KC, cipher_state_KD>>
vars == <<simType, numberOfCSNS, csn_i, mac_responses, simulationMode, pc,
          buttonPressed, em_image, emulator, csn_data, anticoll_data, conf_block,
          card_challenge_data, diversified_key_d, diversified_key_c, diversified_key,
          cipher_state_KC, cipher_state_KD, cipher_state, current_page, page_size,
          max_page, personalization_mode, chip_state, resp_cc, receivedCmd,
          modulated_response, scn, n_updates, epurse_update,
          DecodeReader, samples, reader_in, reader_pc, reader_ret, last_bit,
          reader_oob,
          DecodeTag, tag_in, tag_pc, tag_ret, tag_eof_time, tag_oob,
          Uart, Demod, snoop, DecodeTagFSK, fsk,
          reader_eof_time, response_time, transmitted, snoop15693,
          sim15693, selTag>>

(***************************************************************************)
(* ISO 15693 reader-frame decoder (armsrc/iso15693.c).  A sample is 0      *)
(* while the reader pauses the carrier and 1 otherwise.  The decoder is    *)
(* the record DecodeReader; a handler maps a sample and the decoder to     *)
(* the new decoder, the returned flag and the output indexes it wrote.     *)
(***************************************************************************)


\* DecodeReader_t DecodeReader = {0}
DecodeReaderZero ==
    [state |-> "STATE_READER_UNSYNCD", Coding |-> "CODING_1_OUT_OF_4", shiftReg |-> 0,
     bitCount |-> 0, byteCount |-> 0, byteCountMax |-> 0, posCount |-> 0,
     sum1 |-> 0, sum2 |-> 0, output |-> <<>>]

DecodeReaderInit(d, data, max_len) ==
    [d EXCEPT !.output = data, !.byteCountMax = max_len,
              !.state = "STATE_READER_UNSYNCD", !.byteCount = 0, !.bitCount = 0,
              !.posCount = 1, !.shiftReg = 0]

DecodeReaderResetNothing(d) == d
DecodeReaderReset(d) == [d EXCEPT !.state = "STATE_READER_UNSYNCD"]

\* the handler returns false
Waiting(d) == [d |-> d, frame |-> FALSE, wrote |-> {}]

ReaderUnsyncd(bit, d) ==
    IF bit = 1
    THEN Waiting([d EXCEPT !.state = "STATE_READER_AWAIT_1ST_FALLING_EDGE_OF_SOF"])
    ELSE Waiting(d)

ReaderAwait1stFallingEdge(bit, d) ==
    IF bit = 0
    THEN Waiting([d EXCEPT !.posCount = 1,
                           !.state = "STATE_READER_AWAIT_1ST_RISING_EDGE_OF_SOF"])
    ELSE Waiting(d)

ReaderAwait1stRisingEdge(bit, d) ==
    LET d1 == [d EXCEPT !.posCount = @ + 1]
    IN  IF bit = 1
        THEN IF d1.posCount < 4
             THEN Waiting([d1 EXCEPT
                             !.state = "STATE_READER_AWAIT_1ST_FALLING_EDGE_OF_SOF"])
             ELSE Waiting([d1 EXCEPT
                             !.state = "STATE_READER_AWAIT_2ND_FALLING_EDGE_OF_SOF"])
        ELSE IF d1.posCount > 5
             THEN Waiting(DecodeReaderReset(d1))
             ELSE Waiting(d1)

ReaderAwait2ndFallingEdge(bit, d) ==
    LET d1 == [d EXCEPT !.posCount = @ + 1]
    IN  IF bit = 0
        THEN IF d1.posCount < 20
             THEN Waiting(DecodeReaderReset(d1))
             ELSE IF d1.posCount < 23
             THEN Waiting([d1 EXCEPT
                             !.Coding = "CODING_1_OUT_OF_4",
                             !.state = "STATE_READER_AWAIT_2ND_RISING_EDGE_OF_SOF"])
             ELSE IF d1.posCount < 28
             THEN Waiting(DecodeReaderReset(d1))
             ELSE Waiting([d1 EXCEPT
                             !.Coding = "CODING_1_OUT_OF_256",
                             !.state = "STATE_READER_AWAIT_2ND_RISING_EDGE_OF_SOF"])
        ELSE IF d1.posCount > 29
             THEN Waiting([d1 EXCEPT
                             !.state = "STATE_READER_AWAIT_1ST_FALLING_EDGE_OF_SOF"])
             ELSE Waiting(d1)

\* entering a data state: the sample that ends the SOF is the first of the
\* first bit period
StartOfData(d, st) ==
    [d EXCEPT !.posCount = 1, !.bitCount = 0, !.byteCount = 0, !.sum1 = 1,
              !.state = st]

ReaderAwait2ndRisingEdge(bit, d) ==
    LET d1 == [d EXCEPT !.posCount = @ + 1]
    IN  IF bit = 1
        THEN IF d1.Coding = "CODING_1_OUT_OF_256"
             THEN IF d1.posCount < 32
                  THEN Waiting([d1 EXCEPT
                          !.state = "STATE_READER_AWAIT_1ST_FALLING_EDGE_OF_SOF"])
                  ELSE Waiting(StartOfData(d1, "STATE_READER_RECEIVE_DATA_1_OUT_OF_256"))
             ELSE IF d1.posCount < 24
                  THEN Waiting([d1 EXCEPT
                          !.state = "STATE_READER_AWAIT_1ST_FALLING_EDGE_OF_SOF"])
                  ELSE Waiting([d1 EXCEPT
                          !.posCount = 1,
                          !.state = "STATE_READER_AWAIT_END_OF_SOF_1_OUT_OF_4"])
        ELSE IF d1.Coding = "CODING_1_OUT_OF_256"
             THEN IF d1.posCount > 34 THEN Waiting(DecodeReaderReset(d1))
                                      ELSE Waiting(d1)
             ELSE IF d1.posCount > 26 THEN Waiting(DecodeReaderReset(d1))
                                      ELSE Waiting(d1)

ReaderAwaitEndOfSof(bit, d) ==
    LET d1 == [d EXCEPT !.posCount = @ + 1]
    IN  IF bit = 1
        THEN IF d1.posCount = 9
             THEN Waiting(StartOfData(d1, "STATE_READER_RECEIVE_DATA_1_OUT_OF_4"))
             ELSE Waiting(d1)
        ELSE Waiting(DecodeReaderReset(d1))

\* the two half-period sums of a bit period, after one more sample
SumSample(bit, d) ==
    LET pos == d.posCount + 1
    IN  [d EXCEPT !.posCount = pos,
                  !.sum1 = IF pos = 1 THEN bit
                           ELSE IF pos <= 4 THEN @ + bit ELSE @,
                  !.sum2 = IF pos <= 4 THEN @
                           ELSE IF pos = 5 THEN bit ELSE @ + bit]

\* pause in the second half of the bit period only
IsEOF(d) == d.sum1 <= 1 /\ d.sum2 >= 3

\* an EOF is reported only after at least one byte
EofReturnsAlways(d) == TRUE
EofReturns(d) == d.byteCount # 0

\* pause in the first half of the bit period only
IsPulse(d) == d.sum1 >= 3 /\ d.sum2 <= 1

\* output[byteCount++] = shiftReg, then the capacity test; the buffer holds
\* Len(output) bytes and a write past it lands outside
StoreByte(d) ==
    LET d1 == [d EXCEPT !.output = IF d.byteCount < Len(@)
                                   THEN [@ EXCEPT ![d.byteCount + 1] = d.shiftReg]
                                   ELSE @,
                        !.byteCount = @ + 1]
    IN  [d |-> IF d1.byteCount > d1.byteCountMax THEN DecodeReaderReset(d1) ELSE d1,
         frame |-> FALSE, wrote |-> {d.byteCount}]

ReaderReceiveData1OutOf4(bit, d) ==
    LET d1 == SumSample(bit, d)
    IN  IF d1.posCount # 8 THEN Waiting(d1)
        ELSE
        LET d2 == [d1 EXCEPT !.posCount = 0]
            d3 == IF IsEOF(d2) THEN DecodeReaderReset(d2) ELSE d2
        IN  IF IsEOF(d2) /\ EofReturns(d3)
            THEN [d |-> d3, frame |-> TRUE, wrote |-> {}]
            ELSE
            LET d4 == IF IsPulse(d3)
                      THEN [d3 EXCEPT !.shiftReg =
                              ((@ \div 4) + ((d3.bitCount * 64) % 256)) % 256]
                      ELSE d3
            IN  IF d4.bitCount = 15
                THEN LET r == StoreByte(d4)
                     IN  [r EXCEPT !.d.bitCount = 0, !.d.shiftReg = 0]
                ELSE Waiting([d4 EXCEPT !.bitCount = @ + 1])

ReaderReceiveData1OutOf256(bit, d) ==
    LET d1 == SumSample(bit, d)
    IN  IF d1.posCount # 8 THEN Waiting(d1)
        ELSE
        LET d2 == [d1 EXCEPT !.posCount = 0]
            d3 == IF IsEOF(d2) THEN DecodeReaderReset(d2) ELSE d2
        IN  IF IsEOF(d2) /\ EofReturns(d3)
            THEN [d |-> d3, frame |-> TRUE, wrote |-> {}]
            ELSE
            LET d4 == IF IsPulse(d3) THEN [d3 EXCEPT !.shiftReg = d3.bitCount]
                      ELSE d3
                r == IF d4.bitCount = 255 THEN StoreByte(d4) ELSE Waiting(d4)
            IN  [r EXCEPT !.d.bitCount = (@ + 1) % 256]

Handle15693SampleFromReader(bit, d) ==
    CASE d.state = "STATE_READER_UNSYNCD" -> ReaderUnsyncd(bit, d)
      [] d.state = "STATE_READER_AWAIT_1ST_FALLING_EDGE_OF_SOF" ->
            ReaderAwait1stFallingEdge(bit, d)
      [] d.state = "STATE_READER_AWAIT_1ST_RISING_EDGE_OF_SOF" ->
            ReaderAwait1stRisingEdge(bit, d)
      [] d.state = "STATE_READER_AWAIT_2ND_FALLING_EDGE_OF_SOF" ->
            ReaderAwait2ndFallingEdge(bit, d)
      [] d.state = "STATE_READER_AWAIT_2ND_RISING_EDGE_OF_SOF" ->
            ReaderAwait2ndRisingEdge(bit, d)
      [] d.state = "STATE_READER_AWAIT_END_OF_SOF_1_OUT_OF_4" ->
            ReaderAwaitEndOfSof(bit, d)
      [] d.state = "STATE_READER_RECEIVE_DATA_1_OUT_OF_4" ->
            ReaderReceiveData1OutOf4(bit, d)
      [] d.state = "STATE_READER_RECEIVE_DATA_1_OUT_OF_256" ->
            ReaderReceiveData1OutOf256(bit, d)

(***************************************************************************)
(* Reader-direction encoders.  ToSend is the sequence of bits in the       *)
(* order they are sent (a byte most significant bit first); a bit 1 is a   *)
(* modulation pause.                                                       *)
(***************************************************************************)
\* ToSend[++ToSendMax] = b
ToSendByte(b) ==
    <<b \div 128, (b \div 64) % 2, (b \div 32) % 2, (b \div 16) % 2,
      (b \div 8) % 2, (b \div 4) % 2, (b \div 2) % 2, b % 2>>

ToSendStuffBit(b) == <<b>>

Code1OutOf4HighPairFirst(b) ==
    LET sym(these) == CASE these = 0 -> ToSendByte(64)
                        [] these = 1 -> ToSendByte(16)
                        [] these = 2 -> ToSendByte(4)
                        [] these = 3 -> ToSendByte(1)
    IN  sym(b \div 64) \o sym((b \div 16) % 4) \o sym((b \div 4) % 4) \o sym(b % 4)
\* one byte as four 2-bit symbols, least significant pair first
Code1OutOf4(b) ==
    LET sym(these) == CASE these = 0 -> ToSendByte(64)
                        [] these = 1 -> ToSendByte(16)
                        [] these = 2 -> ToSendByte(4)
                        [] these = 3 -> ToSendByte(1)
    IN  sym(b % 4) \o sym((b \div 4) % 4) \o sym((b \div 16) % 4) \o sym(b \div 64)

RECURSIVE CodeReaderData(_, _)
CodeReaderData(cmd, n) ==
    IF n = 0 THEN <<>> ELSE CodeReaderData(cmd, n - 1) \o Code1OutOf4(cmd[n])

CodeIso15693AsReader(cmd, n) ==
    ToSendByte(132) \o CodeReaderData(cmd, n) \o ToSendByte(32)

\* the slots lo..hi of one byte: a pause in the second half of slot b only
RECURSIVE Code1OutOf256(_, _, _)
Code1OutOf256(b, lo, hi) ==
    IF lo = hi
    THEN IF b = lo THEN ToSendStuffBit(0) \o ToSendStuffBit(1)
                   ELSE ToSendStuffBit(0) \o ToSendStuffBit(0)
    ELSE Code1OutOf256(b, lo, (lo + hi) \div 2)
         \o Code1OutOf256(b, ((lo + hi) \div 2) + 1, hi)

RECURSIVE CodeReaderData256(_, _)
CodeReaderData256(cmd, n) ==
    IF n = 0 THEN <<>> ELSE CodeReaderData256(cmd, n - 1) \o Code1OutOf256(cmd[n], 0, 255)

CodeIso15693AsReader256(cmd, n) ==
    ToSendByte(129) \o CodeReaderData256(cmd, n) \o ToSendByte(32)

(***************************************************************************)
(* ISO 15693 tag-response decoder, one subcarrier (armsrc/iso15693.c).     *)
(* A sample is the amplitude of the subcarrier, a 16-bit number.           *)
(***************************************************************************)
NOISE_THRESHOLD == 160
MAX_PREVIOUS_AMPLITUDE == 65536 - 1 - NOISE_THRESHOLD



\* DecodeTag_t DecodeTag = { 0 }
DecodeTagZero ==
    [state |-> "STATE_TAG_SOF_LOW", bitCount |-> 0, posCount |-> 0, lastBit |-> "LOGIC0",
     shiftReg |-> 0, max_len |-> 0, output |-> <<>>, len |-> 0, sum1 |-> 0,
     sum2 |-> 0, threshold_sof |-> 0, threshold_half |-> 0,
     previous_amplitude |-> 0]

DecodeTagInit(d, data, max_len) ==
    [d EXCEPT !.previous_amplitude = MAX_PREVIOUS_AMPLITUDE, !.posCount = 0,
              !.state = "STATE_TAG_SOF_LOW", !.output = data, !.max_len = max_len]


Or128Dropped(x) == x
\* x | 0x80
Or128(x) == IF (x \div 128) % 2 = 1 THEN x ELSE x + 128

TagWaiting(d) == [d |-> d, frame |-> FALSE, wrote |-> {}]

\* back to the SOF search, remembering the amplitude
TagRestart(d, amplitude) ==
    [d EXCEPT !.posCount = 0, !.previous_amplitude = amplitude,
              !.state = "STATE_TAG_SOF_LOW"]

TagSofLow(amplitude, d) ==
    IF amplitude > NOISE_THRESHOLD + d.previous_amplitude
    THEN IF d.posCount > 10
         THEN TagWaiting([d EXCEPT
                 !.threshold_sof = amplitude - d.previous_amplitude,
                 !.threshold_half = 0,
                 !.state = "STATE_TAG_SOF_RISING_EDGE"])
         ELSE TagWaiting([d EXCEPT !.posCount = 0])
    ELSE TagWaiting([d EXCEPT !.posCount = @ + 1, !.previous_amplitude = amplitude])

TagSofRisingEdge(amplitude, d) ==
    IF amplitude - d.previous_amplitude > d.threshold_sof
    THEN TagWaiting([d EXCEPT
            !.posCount = IF amplitude - d.threshold_sof > d.threshold_sof
                         THEN 1 ELSE 2,
            !.threshold_sof = (amplitude - d.previous_amplitude) \div 2,
            !.state = "STATE_TAG_SOF_HIGH"])
    ELSE TagWaiting([d EXCEPT !.posCount = 2,
                              !.threshold_sof = d.threshold_sof \div 2,
                              !.state = "STATE_TAG_SOF_HIGH"])

TagSofHigh(amplitude, d, recv_speed) ==
    IF amplitude > d.threshold_sof
    THEN LET pos == d.posCount + 1
             half == IF pos > 2 THEN d.threshold_half + amplitude
                     ELSE d.threshold_half
         IN  IF pos = (IF recv_speed THEN 10 ELSE 40)
             THEN TagWaiting([d EXCEPT !.posCount = pos,
                                       !.threshold_half = half \div 4,
                                       !.state = "STATE_TAG_SOF_HIGH_END"])
             ELSE TagWaiting([d EXCEPT !.posCount = pos, !.threshold_half = half])
    ELSE TagWaiting([d EXCEPT !.posCount = 1, !.previous_amplitude = amplitude,
                              !.state = "STATE_TAG_SOF_LOW"])

TagSofHighEnd(amplitude, d, recv_speed) ==
    IF d.posCount = (IF recv_speed THEN 13 ELSE 52) /\ amplitude < d.threshold_sof
    THEN TagWaiting([d EXCEPT !.lastBit = "SOF_PART1", !.shiftReg = 0, !.bitCount = 0,
                              !.len = 0, !.sum1 = amplitude, !.sum2 = 0,
                              !.posCount = 2, !.state = "STATE_TAG_RECEIVING_DATA"])
    ELSE IF d.posCount + 1 > (IF recv_speed THEN 13 ELSE 52)
         THEN TagWaiting(TagRestart(d, amplitude))
         ELSE TagWaiting([d EXCEPT !.posCount = @ + 1])

\* the two half-bit sums after one more sample; posCount is left alone
TagSum(amplitude, d, recv_speed) ==
    LET z == IF d.posCount = 1 THEN [d EXCEPT !.sum1 = 0, !.sum2 = 0] ELSE d
    IN  IF z.posCount <= (IF recv_speed THEN 4 ELSE 16)
        THEN [z EXCEPT !.sum1 = @ + amplitude]
        ELSE [z EXCEPT !.sum2 = @ + amplitude]

\* output[len] = shiftReg; len++ : the buffer holds Len(output) bytes and a
\* write past it lands outside
TagStoreByte(d) ==
    [d EXCEPT !.output = IF d.len < Len(@)
                         THEN [@ EXCEPT ![d.len + 1] = d.shiftReg % 256]
                         ELSE @,
              !.len = @ + 1]

\* the end of a bit period, before the trailing posCount = 0; posCount++
TagBitPeriod(amplitude, d) ==
    LET hi1 == d.sum1 > d.threshold_half
        hi2 == d.sum2 > d.threshold_half
        lo1 == d.sum1 < d.threshold_half
        lo2 == d.sum2 < d.threshold_half
    IN  IF hi1 /\ hi2
        THEN IF d.lastBit = "LOGIC0"
             THEN TagWaiting([d EXCEPT !.state = "STATE_TAG_EOF"])
             ELSE TagWaiting(TagRestart(d, amplitude))
        ELSE IF lo1 /\ hi2
        THEN IF d.lastBit = "SOF_PART1"
             THEN TagWaiting([d EXCEPT !.lastBit = "SOF_PART2"])
             ELSE LET d1 == [d EXCEPT !.lastBit = "LOGIC1",
                                      !.shiftReg = Or128(@ \div 2),
                                      !.bitCount = @ + 1]
                  IN  IF d1.bitCount = 8
                      THEN LET d2 == TagStoreByte(d1)
                           IN  IF d2.len > d2.max_len
                               THEN [d |-> d2, frame |-> TRUE, wrote |-> {d1.len}]
                               ELSE [d |-> [d2 EXCEPT !.bitCount = 0, !.shiftReg = 0],
                                     frame |-> FALSE, wrote |-> {d1.len}]
                      ELSE TagWaiting(d1)
        ELSE IF hi1 /\ lo2
        THEN IF d.lastBit = "SOF_PART1"
             THEN TagWaiting(TagRestart(d, amplitude))
             ELSE LET d1 == [d EXCEPT !.lastBit = "LOGIC0",
                                      !.shiftReg = @ \div 2,
                                      !.bitCount = @ + 1]
                  IN  IF d1.bitCount = 8
                      THEN LET d2 == TagStoreByte(d1)
                               d3 == IF d2.len > d2.max_len
                                     THEN TagRestart(d2, amplitude) ELSE d2
                           IN  [d |-> [d3 EXCEPT !.bitCount = 0, !.shiftReg = 0],
                                frame |-> FALSE, wrote |-> {d1.len}]
                      ELSE TagWaiting(d1)
        ELSE IF d.lastBit = "SOF_PART2"
             THEN [d |-> d, frame |-> TRUE, wrote |-> {}]
             ELSE TagWaiting([d EXCEPT !.posCount = 0, !.state = "STATE_TAG_SOF_LOW"])

\* a handler that returns false at the end of a bit period goes on to
\* posCount = 0; posCount++
TagNextPeriod(r) == IF r.frame THEN r ELSE [r EXCEPT !.d.posCount = 1]

TagReceivingData(amplitude, d, recv_speed) ==
    LET d1 == TagSum(amplitude, d, recv_speed)
    IN  IF d1.posCount = (IF recv_speed THEN 8 ELSE 32)
        THEN TagNextPeriod(TagBitPeriod(amplitude, d1))
        ELSE TagWaiting([d1 EXCEPT !.posCount = @ + 1])

TagEof(amplitude, d, recv_speed) ==
    LET d1 == TagSum(amplitude, d, recv_speed)
    IN  IF d1.posCount = (IF recv_speed THEN 8 ELSE 32)
        THEN IF d1.sum1 > d1.threshold_half /\ d1.sum2 < d1.threshold_half
             THEN TagWaiting([d1 EXCEPT !.posCount = 1, !.state = "STATE_TAG_EOF_TAIL"])
             ELSE TagWaiting([TagRestart(d1, amplitude) EXCEPT !.posCount = 1])
        ELSE TagWaiting([d1 EXCEPT !.posCount = @ + 1])

TagEofTail(amplitude, d, recv_speed) ==
    LET d1 == TagSum(amplitude, d, recv_speed)
    IN  IF d1.posCount = (IF recv_speed THEN 8 ELSE 32)
        THEN IF d1.sum1 < d1.threshold_half /\ d1.sum2 < d1.threshold_half
             THEN [d |-> d1, frame |-> TRUE, wrote |-> {}]
             ELSE TagWaiting([TagRestart(d1, amplitude) EXCEPT !.posCount = 1])
        ELSE TagWaiting([d1 EXCEPT !.posCount = @ + 1])

Handle15693SamplesFromTag(amplitude, d, recv_speed) ==
    CASE d.state = "STATE_TAG_SOF_LOW" -> TagSofLow(amplitude, d)
      [] d.state = "STATE_TAG_SOF_RISING_EDGE" -> TagSofRisingEdge(amplitude, d)
      [] d.state = "STATE_TAG_SOF_HIGH" -> TagSofHigh(amplitude, d, recv_speed)
      [] d.state = "STATE_TAG_SOF_HIGH_END" -> TagSofHighEnd(amplitude, d, recv_speed)
      [] d.state = "STATE_TAG_RECEIVING_DATA" -> TagReceivingData(amplitude, d, recv_speed)
      [] d.state = "STATE_TAG_EOF" -> TagEof(amplitude, d, recv_speed)
      [] d.state = "STATE_TAG_EOF_TAIL" -> TagEofTail(amplitude, d, recv_speed)

(***************************************************************************)
(* The iCLASS sniffer's decoders (armsrc/iclass.c).  Each of the two frame *)
(* buffers of SnoopIClass holds ICLASS_BUFFER_SIZE bytes; a write at an    *)
(* index past it lands outside.  A decoder call yields the new decoder,    *)
(* the returned flag, the output indexes it wrote and, for the             *)
(* demodulator, the pending error code.                                    *)
(***************************************************************************)
ICLASS_BUFFER_SIZE == 32

\* output[i] = b
SniffWrite(r, i, b) ==
    [r EXCEPT !.d.output = IF i < Len(@) THEN [@ EXCEPT ![i + 1] = b] ELSE @,
              !.wrote = @ \cup {i}]

\* lines 322-353, 728: memset(&Demod, 0, sizeof(Demod)) and the output pointer
DemodZero ==
    [state |-> "DEMOD_UNSYNCD", bitCount |-> 0, posCount |-> 0, syncBit |-> 0,
     shiftReg |-> 0, buffer |-> 0, buffer2 |-> 0, buffer3 |-> 0, buff |-> 0,
     samples |-> 0, len |-> 0, sub |-> "SUB_NONE",
     output |-> [i \in 1..ICLASS_BUFFER_SIZE |-> 0]]

\* Demod.output[Demod.len] = b
DemodPut(r, b) == SniffWrite(r, r.d.len, b)

\* Demod.output[Demod.len] = b; Demod.len++
DemodAppend(r, b) == [DemodPut(r, b) EXCEPT !.d.len = @ + 1]

\* lines 370-427: not synchronised; bit is the sample of three calls ago
ManchesterUnsynced(bit, d) ==
    LET r0 == DemodPut([d |-> [d EXCEPT !.posCount = 1], frame |-> FALSE,
                        wrote |-> {}, error |-> 0], 250)
        s8 == IF BitSet(bit, 8) THEN 8 ELSE 0
        b4 == IF BitSet(bit, 4) /\ s8 # 0 THEN bit * 16 ELSE bit
        s4 == IF BitSet(bit, 4) THEN 4 ELSE s8
        b2 == IF BitSet(b4, 2) /\ s4 # 0 THEN b4 * 4 ELSE b4
        s2 == IF BitSet(b4, 2) THEN 2 ELSE s4
        s1 == IF BitSet(b2, 1) /\ s2 # 0 THEN 1 ELSE s2
        e == r0.d
        longBurst == BitSet(e.buffer, s1) /\ BitSet(e.buffer2, s1)
    IN  IF s1 = 0
        THEN [r0 EXCEPT !.d.syncBit = 0]
        ELSE [r0 EXCEPT !.d.syncBit = s1,
                        !.d.len = 0,
                        !.d.state = IF longBurst THEN "DEMOD_START_OF_COMMUNICATION"
                                    ELSE "DEMOD_UNSYNCD",
                        !.d.sub = "SUB_FIRST_HALF",
                        !.d.bitCount = 0,
                        !.d.shiftReg = 0,
                        !.d.samples = CASE s1 = 8 -> 3 [] s1 = 4 -> 2
                                        [] s1 = 2 -> 1 [] OTHER -> 0]

\* lines 461-538: the switch on the state at the end of a bit period
ManchesterSwitch(r) ==
    LET d == r.d
        fail(b, e) == [DemodPut(r, b) EXCEPT !.d.state = "DEMOD_ERROR_WAIT",
                                             !.error = e]
    IN  CASE d.state = "DEMOD_START_OF_COMMUNICATION" ->
               IF d.sub = "SUB_BOTH"
               THEN [r EXCEPT !.d.state = "DEMOD_START_OF_COMMUNICATION2",
                              !.d.posCount = 1, !.d.sub = "SUB_NONE"]
               ELSE fail(171, 210)
          [] d.state = "DEMOD_START_OF_COMMUNICATION2" ->
               IF d.sub = "SUB_SECOND_HALF"
               THEN [r EXCEPT !.d.state = "DEMOD_START_OF_COMMUNICATION3"]
               ELSE fail(171, 211)
          [] d.state = "DEMOD_START_OF_COMMUNICATION3" ->
               IF d.sub = "SUB_SECOND_HALF"
               THEN [r EXCEPT !.d.state = "DEMOD_SOF_COMPLETE"]
               ELSE fail(171, 212)
          [] d.state \in {"DEMOD_SOF_COMPLETE", "DEMOD_MANCHESTER_D",
                          "DEMOD_MANCHESTER_E"} ->
               IF d.sub = "SUB_SECOND_HALF"
               THEN [r EXCEPT !.d.bitCount = @ + 1,
                              !.d.shiftReg = Xor16(@ \div 2, 256),
                              !.d.state = "DEMOD_MANCHESTER_D"]
               ELSE IF d.sub = "SUB_FIRST_HALF"
               THEN [r EXCEPT !.d.bitCount = @ + 1,
                              !.d.shiftReg = @ \div 2,
                              !.d.state = "DEMOD_MANCHESTER_E"]
               ELSE IF d.sub = "SUB_BOTH"
               THEN [r EXCEPT !.d.state = "DEMOD_MANCHESTER_F"]
               ELSE [r EXCEPT !.d.state = "DEMOD_ERROR_WAIT", !.error = 85]
          [] d.state = "DEMOD_MANCHESTER_F" ->
               IF d.len > 0 \/ d.bitCount > 0
               THEN LET r1 == IF d.bitCount > 1
                              THEN DemodAppend(r, (d.shiftReg \div (2 ^ (9 - d.bitCount)))
                                                  % 256)
                              ELSE r
                    IN  [r1 EXCEPT !.d.shiftReg =
                                       IF d.bitCount > 1
                                       THEN @ \div (2 ^ (9 - d.bitCount)) ELSE @,
                                   !.d.state = "DEMOD_UNSYNCD", !.frame = TRUE]
               ELSE fail(173, 3)
          [] d.state = "DEMOD_ERROR_WAIT" ->
               [r EXCEPT !.d.state = "DEMOD_UNSYNCD"]
          [] OTHER ->
               [DemodPut(r, 221) EXCEPT !.d.state = "DEMOD_UNSYNCD"]

\* lines 540-546: a whole byte was shifted in
ManchesterByte(r) ==
    IF r.d.bitCount >= 8
    THEN [DemodAppend(r, (r.d.shiftReg \div 2) % 256)
             EXCEPT !.d.bitCount = 0, !.d.shiftReg = 0]
    ELSE r

\* lines 548-568: the diagnostic bytes of an error, returned as a frame
ManchesterError(bit, r) ==
    IF r.error # 0
    THEN LET r1 == DemodAppend(r, 187)
             r2 == DemodAppend(r1, r.error % 256)
             r3 == DemodAppend(r2, 187)
             r4 == DemodAppend(r3, bit % 256)
             r5 == DemodAppend(r4, r.d.buffer % 256)
             r6 == DemodAppend(r5, r.d.buffer2 % 256)
             r7 == DemodAppend(r6, r.d.syncBit % 256)
             r8 == DemodAppend(r7, 187)
         IN  [r8 EXCEPT !.frame = TRUE]
    ELSE r

\* lines 428-571: synchronised, one half of a bit period per call
ManchesterSynced(bit, d) ==
    LET modulation == \/ BitSet(bit, d.syncBit)
                      \/ BitSet((2 * bit) + ((d.buffer \div 8) % 2), d.syncBit)
        d1 == [d EXCEPT !.samples = @ + 4]
        r0 == [d |-> d1, frame |-> FALSE, wrote |-> {}, error |-> 0]
    IN  IF d1.posCount = 0
        THEN [r0 EXCEPT !.d.posCount = 1,
                        !.d.sub = IF modulation THEN "SUB_FIRST_HALF" ELSE "SUB_NONE"]
        ELSE LET r1 == [r0 EXCEPT !.d.posCount = 0]
             IN  IF ~modulation /\ d1.sub = "SUB_NONE" /\ d1.state = "DEMOD_SOF_COMPLETE"
                 THEN [DemodAppend(r1, 15) EXCEPT !.d.state = "DEMOD_UNSYNCD",
                                                  !.frame = TRUE]
                 ELSE LET r2 == IF modulation
                                THEN [r1 EXCEPT !.d.sub = IF @ = "SUB_FIRST_HALF"
                                                          THEN "SUB_BOTH"
                                                          ELSE "SUB_SECOND_HALF"]
                                ELSE IF d1.sub = "SUB_NONE"
                                THEN [r1 EXCEPT !.d.state = "DEMOD_ERROR_WAIT",
                                                !.error = 51]
                                ELSE r1
                          r3 == ManchesterSwitch(r2)
                      IN  IF r3.frame THEN r3
                          ELSE ManchesterError(bit, ManchesterByte(r3))

\* lines 355-574
ManchesterDecoding(v, d) ==
    LET bit == d.buffer
        d0 == [d EXCEPT !.buffer = d.buffer2, !.buffer2 = d.buffer3, !.buffer3 = v]
    IN  IF d.buff < 3
        THEN [d |-> [d0 EXCEPT !.buff = @ + 1], frame |-> FALSE, wrote |-> {},
              error |-> 0]
        ELSE IF d.state = "DEMOD_UNSYNCD"
        THEN ManchesterUnsynced(bit, d0)
        ELSE ManchesterSynced(bit, d0)

\* lines 76-97, 634: memset(&Uart, 0, sizeof(Uart)) and the output pointer;
\* bitBuffer is the eight hexadecimal digits of the 32 bit int, the most
\* significant first, so that the left shift by four drops the first
UartZero ==
    [state |-> "STATE_UNSYNCD", shiftReg |-> 0, bitCnt |-> 0, byteCnt |-> 0,
     byteCntMax |-> 0, posCnt |-> 0, nOutOfCnt |-> 0, OutOfCnt |-> 0,
     syncBit |-> 0, samples |-> 0, highCnt |-> 0, swapper |-> 0, counter |-> 0,
     bitBuffer |-> <<0, 0, 0, 0, 0, 0, 0, 0>>, dropPosition |-> 0,
     output |-> [i \in 1..ICLASS_BUFFER_SIZE |-> 0]]

\* Uart.output[Uart.byteCnt] = b; Uart.byteCnt++
UartAppend(r, b) == [SniffWrite(r, r.d.byteCnt, b) EXCEPT !.d.byteCnt = @ + 1]

\* Uart.state = STATE_UNSYNCD; Uart.highCnt = 0
UartUnsync(r) == [r EXCEPT !.d.state = "STATE_UNSYNCD", !.d.highCnt = 0]

\* bitBuffer & 0xFF
UartLowByte(d) == (16 * d.bitBuffer[7]) + d.bitBuffer[8]

\* lines 140-164: the first half of a bit period
OutOfNFirstHalf(bit, r) ==
    IF bit = 0
    THEN IF r.d.nOutOfCnt = 1
         THEN IF r.d.byteCnt = 0
              THEN UartAppend(UartUnsync(r), 240)
              ELSE [UartUnsync(r) EXCEPT !.frame = TRUE]
         ELSE IF r.d.state # "STATE_START_OF_COMMUNICATION"
         THEN UartUnsync(r)
         ELSE r
    ELSE r

\* lines 188-231: the end of a 1 out of 4 symbol
OutOfNSymbol4(r) ==
    LET r1 == [r EXCEPT !.d.nOutOfCnt = 0]
        d == r1.d
    IN  IF d.state = "STATE_START_OF_COMMUNICATION"
        THEN [r1 EXCEPT !.d.state = IF d.dropPosition \in {3, 4}
                                    THEN "STATE_RECEIVING" ELSE "STATE_UNSYNCD",
                        !.d.OutOfCnt = IF d.dropPosition = 4 THEN 256
                                       ELSE IF d.dropPosition = 3 THEN 4 ELSE @,
                        !.d.highCnt = IF d.dropPosition \in {3, 4} THEN @ ELSE 0,
                        !.d.dropPosition = 0]
        ELSE IF d.dropPosition = 0
        THEN UartUnsync(r1)
        ELSE LET r2 == [r1 EXCEPT !.d.shiftReg =
                                      Xor16(@ \div 4, ((d.dropPosition - 1) % 4) * 64),
                                  !.d.bitCnt = @ + 2,
                                  !.d.dropPosition = 0]
             IN  IF r2.d.bitCnt = 8
                 THEN [UartAppend(r2, r2.d.shiftReg % 256)
                          EXCEPT !.d.bitCnt = 0, !.d.shiftReg = 0]
                 ELSE r2

\* lines 232-248: the end of a 1 out of 256 symbol
OutOfNSymbol256(r) ==
    IF r.d.dropPosition = 0
    THEN UartUnsync(r)
    ELSE [UartAppend(r, (r.d.dropPosition - 1) % 256)
             EXCEPT !.d.bitCnt = 0, !.d.shiftReg = 0, !.d.nOutOfCnt = 0,
                    !.d.dropPosition = 0]

\* lines 165-248: the second half of a bit period
OutOfNSecondHalf(bit, r) ==
    LET r1 == [r EXCEPT !.d.nOutOfCnt = @ + 1]
        r2 == IF bit = 0
              THEN IF r1.d.dropPosition # 0
                   THEN UartUnsync(r1)
                   ELSE [r1 EXCEPT !.d.dropPosition = r1.d.nOutOfCnt]
              ELSE r1
        r3 == [r2 EXCEPT !.d.posCnt = 0]
    IN  IF r3.d.nOutOfCnt = r3.d.OutOfCnt /\ r3.d.OutOfCnt = 4
        THEN OutOfNSymbol4(r3)
        ELSE IF r3.d.nOutOfCnt = r3.d.OutOfCnt
        THEN OutOfNSymbol256(r3)
        ELSE r3

\* lines 269-312: not synchronised
OutOfNUnsyncedEarly(r) ==
    LET d == r.d
        bit == 15 - d.bitBuffer[7]
        s8 == IF BitSet(bit, 8) THEN 8 ELSE 0
        b4 == IF s8 # 0 /\ BitSet(bit, 4) THEN bit * 4 ELSE bit
        s4 == IF s8 = 0 \/ BitSet(bit, 4) THEN (IF BitSet(bit, 4) THEN 4 ELSE 0)
              ELSE s8
        n4 == IF s8 = 0 \/ BitSet(bit, 4) THEN 2 ELSE 3
        b2 == IF s4 # 0 /\ BitSet(b4, 2) THEN b4 * 2 ELSE b4
        s2 == IF s4 = 0 \/ BitSet(b4, 2) THEN (IF BitSet(b4, 2) THEN 2 ELSE 0)
              ELSE s4
        n2 == IF s4 = 0 \/ BitSet(b4, 2) THEN 1 ELSE n4
        late == s2 = 0 /\ BitSet(b2, 1) /\ BitSet(d.bitBuffer[8], 8)
        s1 == IF s2 = 0
              THEN (IF late THEN 8 ELSE IF BitSet(b2, 1) THEN 1 ELSE 0)
              ELSE IF BitSet(b2, 1) THEN 1 ELSE s2
        n1 == IF s2 = 0 THEN (IF late THEN 3 ELSE 0)
              ELSE IF BitSet(b2, 1) THEN 0 ELSE n2
    IN  IF bit # 0
        THEN IF d.highCnt >= 7
             THEN [r EXCEPT !.d.posCnt = IF late THEN 0 ELSE 1,
                            !.d.syncBit = s1 * 16,
                            !.d.samples = n1,
                            !.d.state = "STATE_START_OF_COMMUNICATION",
                            !.d.bitCnt = 0,
                            !.d.byteCnt = 0,
                            !.d.nOutOfCnt = 0,
                            !.d.OutOfCnt = 4,
                            !.d.dropPosition = 0,
                            !.d.shiftReg = 0]
             ELSE [r EXCEPT !.d.highCnt = 0]
        ELSE IF d.highCnt < 8
        THEN [r EXCEPT !.d.highCnt = @ + 1]
        ELSE r
OutOfNUnsynced(r) ==
    LET d == r.d
        bit == 15 - d.bitBuffer[7]
        s8 == IF BitSet(bit, 8) THEN 8 ELSE 0
        b4 == IF s8 # 0 /\ BitSet(bit, 4) THEN bit * 4 ELSE bit
        s4 == IF s8 = 0 \/ BitSet(bit, 4) THEN (IF BitSet(bit, 4) THEN 4 ELSE 0)
              ELSE s8
        n4 == IF s8 = 0 \/ BitSet(bit, 4) THEN 2 ELSE 3
        b2 == IF s4 # 0 /\ BitSet(b4, 2) THEN b4 * 2 ELSE b4
        s2 == IF s4 = 0 \/ BitSet(b4, 2) THEN (IF BitSet(b4, 2) THEN 2 ELSE 0)
              ELSE s4
        n2 == IF s4 = 0 \/ BitSet(b4, 2) THEN 1 ELSE n4
        late == s2 = 0 /\ BitSet(b2, 1) /\ BitSet(d.bitBuffer[8], 8)
        s1 == IF s2 = 0
              THEN (IF late THEN 8 ELSE IF BitSet(b2, 1) THEN 1 ELSE 0)
              ELSE IF BitSet(b2, 1) THEN 1 ELSE s2
        n1 == IF s2 = 0 THEN (IF late THEN 3 ELSE 0)
              ELSE IF BitSet(b2, 1) THEN 0 ELSE n2
    IN  IF bit # 0
        THEN IF d.highCnt = 8
             THEN [r EXCEPT !.d.posCnt = IF late THEN 0 ELSE 1,
                            !.d.syncBit = s1 * 16,
                            !.d.samples = n1,
                            !.d.state = "STATE_START_OF_COMMUNICATION",
                            !.d.bitCnt = 0,
                            !.d.byteCnt = 0,
                            !.d.nOutOfCnt = 0,
                            !.d.OutOfCnt = 4,
                            !.d.dropPosition = 0,
                            !.d.shiftReg = 0]
             ELSE [r EXCEPT !.d.highCnt = 0]
        ELSE IF d.highCnt < 8
        THEN [r EXCEPT !.d.highCnt = @ + 1]
        ELSE r

\* lines 99-315; the caller passes four bits
OutOfNDecoding(bit4, d) ==
    IF d.bitBuffer = <<0, 0, 0, 0, 0, 0, 0, 0>>
    THEN [d |-> [d EXCEPT !.bitBuffer = <<0, 0, 0, 0, 0, 15, 15, bit4>>],
          frame |-> FALSE, wrote |-> {}]
    ELSE LET d1 == [d EXCEPT !.bitBuffer = Tail(@) \o <<bit4>>]
             r == [d |-> d1, frame |-> FALSE, wrote |-> {}]
         IN  IF d1.state # "STATE_UNSYNCD"
             THEN LET r1 == [r EXCEPT !.d.posCnt = @ + 1]
                      bit == IF BitSet(UartLowByte(d1), d1.syncBit) THEN 1 ELSE 0
                      bitright == IF BitSet(2 * UartLowByte(d1), d1.syncBit)
                                  THEN 1 ELSE 0
                      b == IF bit # bitright THEN bitright ELSE bit
                  IN  IF r1.d.posCnt = 1
                      THEN OutOfNFirstHalf(b, r1)
                      ELSE OutOfNSecondHalf(b, r1)
             ELSE OutOfNUnsynced(r)

(***************************************************************************)
(* ISO 15693 decoder for tag responses on two subcarriers (armsrc/         *)
(* iso15693.c).  A sample is the measured period freq of the subcarrier;   *)
(* s is recv_speed.                                                        *)
(***************************************************************************)
FREQ_IS_484(f) == f >= 26 /\ f <= 30
FREQ_IS_424(f) == f >= 30 /\ f <= 34
SEOF_COUNT(c, s) == IF s THEN c >= 11 /\ c <= 13 ELSE c >= 44 /\ c <= 52
LOGIC_COUNT(c, s) == IF s THEN c >= 3 /\ c <= 6 ELSE c >= 13 /\ c <= 21
MAX_COUNT(c, s) == IF s THEN c >= 13 ELSE c >= 52
MIN_COUNT(c, s) == IF s THEN c <= 2 ELSE c <= 4

\* DecodeTagFSK_t DecodeTag = { 0 }; DecodeTagFSKInit(&DecodeTag, data, max_len)
DecodeTagFSKInit(data, max_len) ==
    [state |-> "STATE_FSK_BEFORE_SOF", lastBit |-> "LOGIC0_PART1", count |-> 0,
     bitCount |-> 0, shiftReg |-> 0, len |-> 0, max_len |-> max_len, output |-> data]

\* lines 875-881, 918-923, 933-937: the error state, returned as true
FSKError(d) == [d |-> [d EXCEPT !.state = "STATE_FSK_ERROR"], frame |-> TRUE, wrote |-> {}]

\* lines 835-854 and 885-903: a bit is finished; top is 0x80 for a logic 1
FSKBit(d, last, top) ==
    LET d1 == [d EXCEPT !.lastBit = last, !.count = 0,
                        !.shiftReg = (@ \div 2) + top,
                        !.bitCount = @ + 1]
    IN  IF d1.bitCount = 8
        THEN LET d2 == [d1 EXCEPT !.output = IF d1.len < Len(@)
                                             THEN [@ EXCEPT ![d1.len + 1] = d1.shiftReg]
                                             ELSE @,
                                  !.len = @ + 1]
             IN  IF d2.len > d2.max_len
                 THEN [d |-> d2, frame |-> TRUE, wrote |-> {d1.len}]
                 ELSE [d |-> [d2 EXCEPT !.bitCount = 0, !.shiftReg = 0],
                       frame |-> FALSE, wrote |-> {d1.len}]
        ELSE [d |-> d1, frame |-> FALSE, wrote |-> {}]

\* lines 771-945
Handle15693FSKSamplesFromTag(freq, d, s) ==
    LET no(e) == [d |-> e, frame |-> FALSE, wrote |-> {}]
        f484 == FREQ_IS_484(freq)
        f424 == FREQ_IS_424(freq)
        c == d.count
        late == d.lastBit \in {"LOGIC0_PART2", "LOGIC1_PART2", "SOF"}
    IN  CASE d.state = "STATE_FSK_BEFORE_SOF" ->
               IF f484
               THEN no([d EXCEPT !.state = "STATE_FSK_SOF_484",
                                 !.lastBit = "LOGIC0_PART1", !.count = 1])
               ELSE no(d)
          [] d.state = "STATE_FSK_SOF_484" ->
               IF f484 /\ ~MAX_COUNT(c, s) THEN no([d EXCEPT !.count = @ + 1])
               ELSE IF f424 /\ SEOF_COUNT(c, s)
               THEN no([d EXCEPT !.state = "STATE_FSK_SOF_424", !.count = 1])
               ELSE no([d EXCEPT !.state = "STATE_FSK_BEFORE_SOF"])
          [] d.state = "STATE_FSK_SOF_424" ->
               IF f424 /\ ~MAX_COUNT(c, s) THEN no([d EXCEPT !.count = @ + 1])
               ELSE IF f484 /\ SEOF_COUNT(c, s)
               THEN no([d EXCEPT !.state = "STATE_FSK_SOF_END", !.count = 1])
               ELSE no([d EXCEPT !.state = "STATE_FSK_BEFORE_SOF"])
          [] d.state = "STATE_FSK_SOF_END" ->
               IF f484 /\ ~MAX_COUNT(c, s) THEN no([d EXCEPT !.count = @ + 1])
               ELSE IF f424 /\ LOGIC_COUNT(c, s)
               THEN no([d EXCEPT !.count = 0,
                                 !.state = IF d.lastBit = "SOF"
                                           THEN "STATE_FSK_RECEIVING_DATA_424" ELSE @,
                                 !.lastBit = "SOF"])
               ELSE IF f424 /\ ~MAX_COUNT(c, s) THEN no([d EXCEPT !.count = @ + 1])
               ELSE IF d.lastBit = "SOF" /\ f484 /\ LOGIC_COUNT(c, s)
               THEN no([d EXCEPT !.state = "STATE_FSK_RECEIVING_DATA_484", !.count = 1])
               ELSE no([d EXCEPT !.state = "STATE_FSK_BEFORE_SOF"])
          [] d.state = "STATE_FSK_RECEIVING_DATA_424" ->
               IF d.lastBit = "LOGIC1_PART1" /\ LOGIC_COUNT(c, s)
               THEN FSKBit(d, "LOGIC1_PART2", 128)
               ELSE IF f424 /\ ~MAX_COUNT(c, s) THEN no([d EXCEPT !.count = @ + 1])
               ELSE IF f484 /\ LOGIC_COUNT(c, s) /\ late
               THEN no([d EXCEPT !.count = 1, !.state = "STATE_FSK_RECEIVING_DATA_484",
                                 !.lastBit = "LOGIC0_PART1"])
               ELSE IF f484 /\ MIN_COUNT(c, s)
               THEN no([d EXCEPT !.count = 1, !.state = "STATE_FSK_RECEIVING_DATA_484"])
               ELSE IF f484 /\ d.lastBit = "LOGIC0_PART2" /\ SEOF_COUNT(c, s)
               THEN no([d EXCEPT !.count = 1, !.state = "STATE_FSK_EOF"])
               ELSE FSKError(d)
          [] d.state = "STATE_FSK_RECEIVING_DATA_484" ->
               IF d.lastBit = "LOGIC0_PART1" /\ LOGIC_COUNT(c, s)
               THEN FSKBit(d, "LOGIC0_PART2", 0)
               ELSE IF f484 /\ ~MAX_COUNT(c, s) THEN no([d EXCEPT !.count = @ + 1])
               ELSE IF f424 /\ LOGIC_COUNT(c, s) /\ late
               THEN no([d EXCEPT !.count = 1, !.state = "STATE_FSK_RECEIVING_DATA_424",
                                 !.lastBit = "LOGIC1_PART1"])
               ELSE IF f424 /\ MIN_COUNT(c, s)
               THEN no([d EXCEPT !.count = 1, !.state = "STATE_FSK_RECEIVING_DATA_424"])
               ELSE FSKError(d)
          [] d.state = "STATE_FSK_EOF" ->
               IF f484 /\ ~MAX_COUNT(c, s)
               THEN [d |-> [d EXCEPT !.count = @ + 1],
                     frame |-> SEOF_COUNT(c + 1, s), wrote |-> {}]
               ELSE FSKError(d)
          [] OTHER -> [d |-> d, frame |-> TRUE, wrote |-> {}]

\* the frame decoders are not running
DecodersIdle ==
    /\ DecodeReader = DecodeReaderZero
    /\ samples = 0
    /\ reader_in = [wave |-> 0, pos |-> 0]
    /\ reader_pc = "idle"
    /\ reader_ret = 0
    /\ last_bit = 0
    /\ reader_oob = {}
    /\ DecodeTag = DecodeTagZero
    /\ tag_in = [wave |-> 0, pos |-> 0, levels |-> <<0, 0>>, timeout |-> 0]
    /\ tag_pc = "idle"
    /\ tag_ret = 0
    /\ tag_eof_time = 0
    /\ tag_oob = {}
    /\ Uart = UartZero
    /\ Demod = DemodZero
    /\ snoop = [pc |-> "idle", wave |-> 0, pos |-> 0, div |-> 0, decbyte |-> 0,
                decbyter |-> 0, uart_oob |-> {}, demod_oob |-> {},
                trace |-> [readerToTag |-> FALSE, iLen |-> -1, btBytes |-> <<>>]]
    /\ DecodeTagFSK = DecodeTagFSKInit(<<>>, 0)
    /\ fsk = [pc |-> "idle", ret |-> 0, started |-> FALSE, oob |-> {}, trace |-> <<>>]
    /\ reader_eof_time = 0
    /\ response_time = 0
    /\ transmitted = <<>>
    /\ snoop15693 = [pc |-> "idle", stream |-> 0, pos |-> 0,
                     TagIsActive |-> FALSE, ReaderIsActive |-> FALSE,
                     ExpectTagAnswer |-> FALSE, fed |-> "none", trace |-> <<>>]
    /\ sim15693 = [pc |-> "idle", selected |-> FALSE, quiet |-> FALSE,
                   highRate |-> FALSE, tag |-> <<>>, cmd |-> <<>>, error |-> 0,
                   recv |-> <<>>, sent |-> <<>>, path |-> "none", oob |-> {},
                   stayQuiet |-> FALSE]
    /\ selTag = [pc |-> "idle", start_time |-> 0, eof_time |-> 0, resp |-> <<>>,
                 select |-> <<>>, card_data |-> <<>>, ret |-> "none",
                 sent |-> <<>>, answers |-> <<>>]

\* observers: scn and n_updates count commands; epurse_update is the data of the
\* last accepted Update of block 2 (<<>>: none since the session started or since
\* the last accepted PageSel)

(***************************************************************************)
(* doIClassSimulation, lines 780-953: the locals before the first command  *)
(***************************************************************************)
\* the block at addr when it lies inside the emulator memory
EmBlock(img, em, addr) == CHOOSE b \in EmReadSet(img, em, addr) : TRUE

\* blocks per page
PageBlocks(psize) == psize \div 8

\* cipher_state_KD[] / cipher_state_KC[] after the precalculation loop
\* (for (i = 1; i < max_page; i++)); keyBlk is 3 for Kd and 4 for Kc.  With the
\* 32-block pages of the images modelled every address lies inside the memory.
InitialCipherStates(mode, img, em, cc, key, psize, maxp, keyBlk) ==
    [i \in 0..(CipherSlots - 1) |->
        IF i = 0 THEN opt_doTagMAC_1(cc, key)
        ELSE IF mode = ICLASS_SIM_MODE_FULL /\ i >= 1 /\ i < maxp
             THEN opt_doTagMAC_1(EmBlock(img, em, i * PageBlocks(psize) + 2),
                                 EmBlock(img, em, i * PageBlocks(psize) + keyBlk))
             ELSE Uninit]

SessionLocals(mode, img, em) ==
    LET full == mode = ICLASS_SIM_MODE_FULL
        csn == EmBlock(img, em, 0)
        conf == IF full THEN EmBlock(img, em, 1) ELSE ConfSingleApp
        cc == IF full THEN EmBlock(img, em, 2)
              ELSE <<254, 255, 255, 255, 255, 255, 255, 255>>
        kd == IF full THEN EmBlock(img, em, 3) ELSE Zero8
        kc == IF full THEN EmBlock(img, em, 4) ELSE Zero8
        psize == IF BitSet(conf[6], 128) THEN 256 * 8 ELSE 32 * 8
        maxp == IF BitSet(conf[5], 16) THEN 0 ELSE 7
    IN [csn_data |-> AppendCrc(csn, 8),
        anticoll_data |-> AppendCrc(rotateCSN(csn), 8),
        conf_block |-> AppendCrc(conf, 8),
        card_challenge_data |-> cc,
        diversified_key_d |-> kd,
        diversified_key_c |-> kc,
        page_size |-> psize,
        personalization_mode |-> BitSet(conf[8], 128),
        max_page |-> maxp,
        cipher_state_KD |-> InitialCipherStates(mode, img, em, cc, kd, psize, maxp, 3),
        cipher_state_KC |-> InitialCipherStates(mode, img, em, cc, kc, psize, maxp, 4)]

\* the cached responses that never change during a session
resp_sof == CodeIClassTagSOF
resp_anticoll == CodeIso15693AsTag(anticoll_data, 10)
resp_csn == CodeIso15693AsTag(csn_data, 10)
resp_conf == CodeIso15693AsTag(conf_block, 10)
ff_data == AppendCrc(FF8, 8)
resp_ff == CodeIso15693AsTag(ff_data, 10)
aia_data == AppendCrc(FF8, 8)
resp_aia == CodeIso15693AsTag(aia_data, 10)

\* mac_responses[] as 16-byte records; record i is reader_mac_buf of session i
EmptyRecord == Zero8 \o Zero8
HasMacBuf == simType = ICLASS_SIM_MODE_READER_ATTACK

\* every copy at the start of the record
MacBufWriteAtZero(buf, i, off, src) ==
    [buf EXCEPT ![i + 1] = [k \in 1..16 |-> IF k <= 8 THEN src[k] ELSE @[k]]]

\* memcpy(reader_mac_buf + off, src, 8)
MacBufWrite(buf, i, off, src) ==
    [buf EXCEPT ![i + 1] = [k \in 1..16 |->
        IF k > off /\ k <= off + 8 THEN src[k - off] ELSE @[k]]]

(***************************************************************************)
(* SimulateIClass, lines 1258-1324                                          *)
(***************************************************************************)
\* the mode doIClassSimulation is called with for each simulation type
ModeOf(type) ==
    CASE type = ICLASS_SIM_MODE_CSN -> ICLASS_SIM_MODE_CSN
      [] type = ICLASS_SIM_MODE_CSN_DEFAULT -> ICLASS_SIM_MODE_CSN
      [] type = ICLASS_SIM_MODE_READER_ATTACK -> ICLASS_SIM_MODE_EXIT_AFTER_MAC
      [] type = ICLASS_SIM_MODE_FULL -> ICLASS_SIM_MODE_FULL

\* the state in which doIClassSimulation(mode, buf) waits for its first command,
\* with emulator memory (img, em); macs is mac_responses before the call and i the
\* index of the record buf points to (withBuf = FALSE: buf is NULL)
SessionStart(mode, img, em, macs, i, withBuf) ==
    LET L == SessionLocals(mode, img, em)
    IN [simulationMode |-> mode, em_image |-> img, emulator |-> em, csn_i |-> i,
        mac_responses |-> IF withBuf THEN MacBufWrite(macs, i, 0, L.card_challenge_data)
                          ELSE macs,
        csn_data |-> L.csn_data, anticoll_data |-> L.anticoll_data,
        conf_block |-> L.conf_block, card_challenge_data |-> L.card_challenge_data,
        diversified_key_d |-> L.diversified_key_d,
        diversified_key_c |-> L.diversified_key_c,
        cipher_state_KD |-> L.cipher_state_KD, cipher_state_KC |-> L.cipher_state_KC,
        page_size |-> L.page_size, max_page |-> L.max_page,
        personalization_mode |-> L.personalization_mode,
        resp_cc |-> CodeIso15693AsTag(L.card_challenge_data, 8)]

InitFrom(r) ==
    /\ simulationMode = r.simulationMode
    /\ em_image = r.em_image
    /\ emulator = r.emulator
    /\ csn_i = r.csn_i
    /\ mac_responses = r.mac_responses
    /\ csn_data = r.csn_data
    /\ anticoll_data = r.anticoll_data
    /\ conf_block = r.conf_block
    /\ card_challenge_data = r.card_challenge_data
    /\ diversified_key_d = r.diversified_key_d
    /\ diversified_key_c = r.diversified_key_c
    /\ diversified_key = "d"
    /\ cipher_state_KD = r.cipher_state_KD
    /\ cipher_state_KC = r.cipher_state_KC
    /\ cipher_state = [arr |-> "KD", idx |-> 0]
    /\ current_page = 0
    /\ page_size = r.page_size
    /\ max_page = r.max_page
    /\ personalization_mode = r.personalization_mode
    /\ chip_state = "IDLE"
    /\ resp_cc = r.resp_cc
    /\ pc = "loop"
    /\ buttonPressed = FALSE
    /\ receivedCmd = <<>>
    /\ modulated_response = <<>>
    /\ scn = 0
    /\ n_updates = 0
    /\ epurse_update = <<>>
    /\ DecodersIdle

Init ==
    /\ simType \in {ICLASS_SIM_MODE_CSN, ICLASS_SIM_MODE_CSN_DEFAULT,
                    ICLASS_SIM_MODE_READER_ATTACK, ICLASS_SIM_MODE_FULL}
    /\ \/ /\ simType = ICLASS_SIM_MODE_CSN
          /\ numberOfCSNS = 0
          /\ \E c \in 0..1 :
                InitFrom(SessionStart(ModeOf(simType), "single", (0 :> HostCSN(c)),
                                      <<>>, 0, FALSE))
       \/ /\ simType = ICLASS_SIM_MODE_CSN_DEFAULT
          /\ numberOfCSNS = 0
          /\ InitFrom(SessionStart(ModeOf(simType), "single", (0 :> DefaultCSN),
                                   <<>>, 0, FALSE))
       \/ /\ simType = ICLASS_SIM_MODE_READER_ATTACK
          /\ numberOfCSNS \in 1..MaxCSNs
          /\ InitFrom(SessionStart(ModeOf(simType), "single",
                                   (0 :> HostCSN(0)),
                                   [k \in 1..numberOfCSNS |-> EmptyRecord], 0, TRUE))
       \/ /\ simType = ICLASS_SIM_MODE_FULL
          /\ numberOfCSNS = 0
          /\ \E img \in Images :
                InitFrom(SessionStart(ModeOf(simType), img, <<>>, <<>>, 0, FALSE))

(***************************************************************************)
(* Frames the reader may send                                              *)
(***************************************************************************)
\* a command byte, its payload and the CRC of the payload
WithCrc(cmd, payload) ==
    <<cmd>> \o payload \o ComputeCrc14443(CRC_ICLASS, payload, Len(payload))

\* the same with a CRC that does not match
WithBadCrc(cmd, payload) ==
    LET c == ComputeCrc14443(CRC_ICLASS, payload, Len(payload))
    IN <<cmd>> \o payload \o <<Xor8(c[1], 1), c[2]>>

ReadBlockNos == {0, 1, 2, 3, 4, 6}
PageBytes == {1, MaxPageByte}
Nonce == <<17, 34, 51, 68>>
ReaderMac == <<222, 173, 190, 239>>
UpdateData == <<1, 2, 3, 4, 5, 6, 7, 8>>

ReadBlock1Frame == WithCrc(ICLASS_CMD_READ_OR_IDENTIFY, <<1>>)

\* Update frames: 12 bytes with a CRC, or 14 bytes with a 4-byte signature
UpdateFrames ==
    {WithCrc(ICLASS_CMD_UPDATE, <<b>> \o UpdateData) : b \in {2, 3, 4}}
    \cup {WithCrc(ICLASS_CMD_UPDATE, <<1>> \o ConfMultiPers)}
    \cup {<<ICLASS_CMD_UPDATE, 6>> \o UpdateData \o ReaderMac}

\* the frames that do not depend on the CSN
FixedFrames ==
    {<<ICLASS_CMD_ACTALL>>, <<ICLASS_CMD_READ_OR_IDENTIFY>>, <<ICLASS_CMD_HALT>>}
    \cup {WithCrc(ICLASS_CMD_READ_OR_IDENTIFY, <<b>>) : b \in ReadBlockNos}
    \cup {WithBadCrc(ICLASS_CMD_READ_OR_IDENTIFY, <<1>>)}
    \cup {<<c, 2>> : c \in {ICLASS_CMD_READCHECK_KD, ICLASS_CMD_READCHECK_KC}}
    \cup {<<ICLASS_CMD_READCHECK_KD, 1>>}
    \cup {<<c>> \o Nonce \o ReaderMac : c \in {ICLASS_CMD_CHECK_KD, ICLASS_CMD_CHECK_KC}}
    \cup {WithCrc(ICLASS_CMD_READ4, <<0>>), WithBadCrc(ICLASS_CMD_READ4, <<6>>)}
    \cup UpdateFrames
    \cup {WithBadCrc(ICLASS_CMD_UPDATE, <<2>> \o ConfMultiPers)}
    \cup {WithCrc(ICLASS_CMD_PAGESEL, <<p>>) : p \in PageBytes}
    \cup {WithBadCrc(ICLASS_CMD_PAGESEL, <<1>>)}
    \cup {<<ISO15693_INVENTORY, 1, 0, 0, 0>>}
    \cup {<<15>>, <<ICLASS_CMD_ACTALL, 0>>}

\* Select with the anticollision CSN, the real CSN, another CSN
SelectFrames ==
    {<<ICLASS_CMD_SELECT>> \o x :
        x \in {SubSeq(anticoll_data, 1, 8), SubSeq(csn_data, 1, 8), Zero8}}

Frames == FixedFrames \cup SelectFrames

(***************************************************************************)
(* doIClassSimulation, lines 955-1237: one loop iteration per action       *)
(***************************************************************************)
\* position in the scenario ActivateAll (from Idle), Identify, Select(anticollision
\* CSN), Read block 1: the number of its commands received in a row so far
ScnNext(f) ==
    IF scn = 1 /\ f = <<ICLASS_CMD_READ_OR_IDENTIFY>> THEN 2
    ELSE IF scn = 2 /\ f = <<ICLASS_CMD_SELECT>> \o SubSeq(anticoll_data, 1, 8) THEN 3
    ELSE IF scn = 3 /\ f = ReadBlock1Frame THEN 4
    ELSE IF chip_state = "IDLE" /\ f = <<ICLASS_CMD_ACTALL>> THEN 1
    ELSE 0

\* len = GetIso15693CommandFromReader(receivedCmd, ...) returned the frame f
Receive(f) ==
    /\ pc = "loop"
    /\ receivedCmd' = f
    /\ scn' = ScnNext(f)

\* lines 1231-1235: transmit when there is a response (<<>>: none)
Transmit(response) == modulated_response' = response

\* iso15693.c lines 1363-1366: BUTTON_PRESS() after a DMA byte leaves the loop
\* with the byte counter set to -1, the value line 1384 returns
ButtonReturnKeepsCount(d) == d
ButtonReturn(d) == [d EXCEPT !.byteCount = -1]

\* the branch conditions of the if/else chain
\* the command byte compared without the length
IsActAllAnyLength(cmd) == cmd[1] = ICLASS_CMD_ACTALL
IsActAll(cmd) == Len(cmd) = 1 /\ cmd[1] = ICLASS_CMD_ACTALL
IsIdentify(cmd) == Len(cmd) = 1 /\ cmd[1] = ICLASS_CMD_READ_OR_IDENTIFY
IsSelect(cmd) == Len(cmd) = 9 /\ cmd[1] = ICLASS_CMD_SELECT
IsReadBlock(cmd) == Len(cmd) = 4 /\ cmd[1] = ICLASS_CMD_READ_OR_IDENTIFY
IsReadCheck(cmd) ==
    /\ Len(cmd) = 2
    /\ cmd[1] \in {ICLASS_CMD_READCHECK_KD, ICLASS_CMD_READCHECK_KC}
    /\ cmd[2] = 2
IsCheck(cmd) == Len(cmd) = 9 /\ cmd[1] \in {ICLASS_CMD_CHECK_KC, ICLASS_CMD_CHECK_KD}
IsHalt(cmd) == Len(cmd) = 1 /\ cmd[1] = ICLASS_CMD_HALT
IsRead4(cmd) ==
    simulationMode = ICLASS_SIM_MODE_FULL /\ Len(cmd) = 4 /\ cmd[1] = ICLASS_CMD_READ4
\* only the Update that ends in a CRC
IsUpdateLen12Only(cmd) == Len(cmd) = 12 /\ cmd[1] = ICLASS_CMD_UPDATE
IsUpdate(cmd) == Len(cmd) \in {12, 14} /\ cmd[1] = ICLASS_CMD_UPDATE
IsPageSel(cmd) == Len(cmd) = 4 /\ cmd[1] = ICLASS_CMD_PAGESEL
IsInventory(cmd) == Len(cmd) = 5 /\ cmd[1] = ISO15693_INVENTORY

\* block address of emulator + current_page*page_size + 8*blockNo
BlockAddr(page, blockNo) == page * PageBlocks(page_size) + blockNo

sessVars == <<csn_i, mac_responses, pc, buttonPressed>>
memVars == <<emulator, card_challenge_data, resp_cc, n_updates, epurse_update>>
pageVars == <<current_page, personalization_mode>>

\* ActivateAll answered in every state
ActAllAlways(state) == TRUE

\* lines 972-978
ActAllAllowed(state) == state # "HALTED"

ActAll ==
    \E f \in Frames :
        /\ Receive(f)
        /\ IsActAll(f)
        /\ IF ActAllAllowed(chip_state)
           THEN Transmit(resp_sof) /\ chip_state' = "ACTIVATED"
           ELSE Transmit(<<>>) /\ UNCHANGED chip_state
        /\ UNCHANGED <<decVars, simVars, idVars, keyVars, ctxVars, ciphVars, sessVars,
                       memVars, pageVars>>

\* Identify answered only once selected
IdentifyAllowedSelectedOnly(state) == state = "SELECTED"

\* lines 980-987
IdentifyAllowed(state) == state = "SELECTED" \/ state = "ACTIVATED"

Identify ==
    \E f \in Frames :
        /\ Receive(f)
        /\ IsIdentify(f)
        /\ Transmit(IF IdentifyAllowed(chip_state) THEN resp_anticoll ELSE <<>>)
        /\ UNCHANGED <<decVars, simVars, idVars, keyVars, ctxVars, ciphVars, sessVars,
                       memVars, pageVars, chip_state>>

\* !memcmp(receivedCmd+1, ref, 8)
SelectMatches(cmd, ref) == SubSeq(cmd, 2, 9) = SubSeq(ref, 1, 8)

\* lines 989-1011: <<response, new chip state>>
SelectResult(cmd, state) ==
    IF state = "ACTIVATED" \/ state = "SELECTED"
    THEN (IF SelectMatches(cmd, anticoll_data)
          THEN <<resp_csn, "SELECTED">> ELSE <<(<<>>), "IDLE">>)
    ELSE IF state = "HALTED" /\ SelectMatches(cmd, csn_data)
         THEN <<resp_csn, "SELECTED">>
         ELSE <<(<<>>), state>>

Select ==
    \E f \in Frames :
        /\ Receive(f)
        /\ IsSelect(f)
        /\ Transmit(SelectResult(f, chip_state)[1])
        /\ chip_state' = SelectResult(f, chip_state)[2]
        /\ UNCHANGED <<decVars, simVars, idVars, keyVars, ctxVars, ciphVars, sessVars,
                       memVars, pageVars>>

\* only Kd protected
IsKeyBlockKdOnly(blockNo) == blockNo = 3

\* line 1057: Kd, Kc are never read
IsKeyBlock(blockNo) == blockNo = 3 \/ blockNo = 4

\* lines 1018-1055: the defaults for blocks 0..5 (<<>>: don't respond)
DefaultBlockResponse(blockNo) ==
    CASE blockNo = 0 -> resp_csn
      [] blockNo = 1 -> resp_conf
      [] blockNo = 2 -> resp_cc
      [] blockNo = 3 \/ blockNo = 4 -> resp_ff
      [] blockNo = 5 -> resp_aia
      [] OTHER -> <<>>

\* lines 1013-1073
ReadBlock ==
    \E f \in Frames :
        /\ Receive(f)
        /\ IsReadBlock(f)
        /\ LET blockNo == f[2] IN
           IF chip_state # "SELECTED"
           THEN Transmit(<<>>) /\ UNCHANGED mac_responses
           ELSE IF simulationMode = ICLASS_SIM_MODE_EXIT_AFTER_MAC
           THEN /\ Transmit(DefaultBlockResponse(blockNo))
                /\ mac_responses' =
                      IF blockNo = 2 /\ HasMacBuf
                      THEN MacBufWrite(mac_responses, csn_i, 0, card_challenge_data)
                      ELSE mac_responses
           ELSE IF simulationMode = ICLASS_SIM_MODE_FULL
           THEN /\ UNCHANGED mac_responses
                /\ IF IsKeyBlock(blockNo)
                   THEN Transmit(resp_ff)
                   ELSE \E blk \in EmReadSet(em_image, emulator,
                                             BlockAddr(current_page, blockNo)) :
                            Transmit(CodeIso15693AsTag(AppendCrc(blk, 8), 10))
           ELSE Transmit(<<>>) /\ UNCHANGED mac_responses
        /\ UNCHANGED <<decVars, simVars, idVars, keyVars, ctxVars, ciphVars, csn_i, pc,
                       buttonPressed, memVars, pageVars, chip_state>>

\* the debit context whatever the command
ReadCheckContextAlwaysDebit(cmd, page) == <<[arr |-> "KD", idx |-> page], "d">>

\* lines 1079-1085: the cipher state and key the next Check uses
ReadCheckContext(cmd, page) ==
    IF cmd[1] = ICLASS_CMD_READCHECK_KD
    THEN <<[arr |-> "KD", idx |-> page], "d">>
    ELSE <<[arr |-> "KC", idx |-> page], "c">>

\* lines 1075-1090
ReadCheck ==
    \E f \in Frames :
        /\ Receive(f)
        /\ IsReadCheck(f)
        /\ IF chip_state = "SELECTED"
           THEN /\ cipher_state' = ReadCheckContext(f, current_page)[1]
                /\ diversified_key' = ReadCheckContext(f, current_page)[2]
                /\ Transmit(resp_cc)
           ELSE Transmit(<<>>) /\ UNCHANGED ctxVars
        /\ UNCHANGED <<decVars, simVars, idVars, keyVars, ciphVars, sessVars, memVars,
                       pageVars, chip_state>>

\* *cipher_state and diversified_key as Check dereferences them
CipherStateValues ==
    CipherRead(IF cipher_state.arr = "KD" THEN cipher_state_KD ELSE cipher_state_KC,
               cipher_state.idx)
DiversifiedKeyValue ==
    IF diversified_key = "d" THEN diversified_key_d ELSE diversified_key_c

\* lines 1092-1116
Check ==
    \E f \in Frames :
        /\ Receive(f)
        /\ IsCheck(f)
        /\ IF chip_state # "SELECTED"
           THEN Transmit(<<>>) /\ UNCHANGED <<mac_responses, pc>>
           ELSE IF simulationMode = ICLASS_SIM_MODE_FULL
           THEN /\ \E st \in CipherStateValues :
                     Transmit(CodeIso15693AsTag(
                         opt_doTagMAC_2(st, SubSeq(f, 2, 5), DiversifiedKeyValue), 4))
                /\ UNCHANGED <<mac_responses, pc>>
           ELSE IF simulationMode = ICLASS_SIM_MODE_EXIT_AFTER_MAC
           THEN /\ Transmit(<<>>)
                /\ mac_responses' =
                      IF HasMacBuf
                      THEN MacBufWrite(mac_responses, csn_i, 8, SubSeq(f, 2, 9))
                      ELSE mac_responses
                /\ pc' = "returned"
           ELSE Transmit(<<>>) /\ UNCHANGED <<mac_responses, pc>>
        /\ UNCHANGED <<decVars, simVars, idVars, keyVars, ctxVars, ciphVars, csn_i,
                       buttonPressed, memVars, pageVars, chip_state>>

\* lines 1118-1124
Halt ==
    \E f \in Frames :
        /\ Receive(f)
        /\ IsHalt(f)
        /\ IF chip_state = "SELECTED"
           THEN Transmit(resp_sof) /\ chip_state' = "HALTED"
           ELSE Transmit(<<>>) /\ UNCHANGED chip_state
        /\ UNCHANGED <<decVars, simVars, idVars, keyVars, ctxVars, ciphVars, sessVars,
                       memVars, pageVars>>

\* lines 1126-1138: the 32 bytes at the block address, CRC appended
Read4 ==
    \E f \in Frames :
        /\ Receive(f)
        /\ IsRead4(f)
        /\ IF chip_state = "SELECTED"
           THEN LET a == BlockAddr(current_page, f[2]) IN
                \E b0 \in EmReadSet(em_image, emulator, a),
                   b1 \in EmReadSet(em_image, emulator, a + 1),
                   b2 \in EmReadSet(em_image, emulator, a + 2),
                   b3 \in EmReadSet(em_image, emulator, a + 3) :
                    Transmit(CodeIso15693AsTag(AppendCrc(b0 \o b1 \o b2 \o b3, 32), 34))
           ELSE Transmit(<<>>)
        /\ UNCHANGED <<decVars, simVars, idVars, keyVars, ctxVars, ciphVars, sessVars,
                       memVars, pageVars, chip_state>>

\* the key always overwritten
UpdatedKeyOverwrite(old, data, personalization) == data

\* lines 1156-1162 and 1168-1174: the new key
UpdatedKey(old, data, personalization) ==
    IF personalization THEN data ELSE XorBlock(old, data)

\* lines 1140-1190
Update ==
    \E f \in Frames :
        /\ Receive(f)
        /\ IsUpdate(f)
        /\ IF chip_state # "SELECTED"
           THEN /\ Transmit(<<>>)
                /\ UNCHANGED <<memVars, keyVars, ciphVars>>
           ELSE
             LET blockNo == f[2]
                 data == SubSeq(f, 3, 10)
                 full == simulationMode = ICLASS_SIM_MODE_FULL
                 addr == BlockAddr(current_page, blockNo)
                 kd == UpdatedKey(diversified_key_d, data, personalization_mode)
                 kc == UpdatedKey(diversified_key_c, data, personalization_mode)
             IN
             /\ \/ n_updates < MaxUpdates
                \/ n_updates = MaxUpdates /\ f = receivedCmd
             /\ n_updates' = n_updates + 1
             /\ epurse_update' = IF blockNo = 2 THEN data ELSE epurse_update
             /\ CASE blockNo = 2 ->
                     /\ card_challenge_data' = data
                     /\ resp_cc' = CodeIso15693AsTag(data, 8)
                     /\ cipher_state_KD' = CipherWrite(cipher_state_KD, current_page,
                                               opt_doTagMAC_1(data, diversified_key_d))
                     /\ cipher_state_KC' = CipherWrite(cipher_state_KC, current_page,
                                               opt_doTagMAC_1(data, diversified_key_c))
                     /\ emulator' = IF full THEN EmWrite(emulator, addr, data)
                                    ELSE emulator
                     /\ UNCHANGED keyVars
                  [] blockNo = 3 ->
                     /\ diversified_key_d' = kd
                     /\ cipher_state_KD' = CipherWrite(cipher_state_KD, current_page,
                                               opt_doTagMAC_1(card_challenge_data, kd))
                     /\ emulator' = IF full THEN EmWrite(emulator, addr, kd)
                                    ELSE emulator
                     /\ UNCHANGED <<diversified_key_c, cipher_state_KC,
                                    card_challenge_data, resp_cc>>
                  [] blockNo = 4 ->
                     /\ diversified_key_c' = kc
                     /\ cipher_state_KC' = CipherWrite(cipher_state_KC, current_page,
                                               opt_doTagMAC_1(card_challenge_data, kc))
                     /\ emulator' = IF full THEN EmWrite(emulator, addr, kc)
                                    ELSE emulator
                     /\ UNCHANGED <<diversified_key_d, cipher_state_KD,
                                    card_challenge_data, resp_cc>>
                  [] OTHER ->
                     /\ emulator' = IF full THEN EmWrite(emulator, addr, data)
                                    ELSE emulator
                     /\ UNCHANGED <<keyVars, ciphVars, card_challenge_data, resp_cc>>
             /\ Transmit(CodeIso15693AsTag(AppendCrc(data, 8), 10))
        /\ UNCHANGED <<decVars, simVars, idVars, ctxVars, sessVars, pageVars, chip_state>>

\* line 1197: a chip with a single page does not answer
PageSelAnswered == simulationMode = ICLASS_SIM_MODE_FULL /\ max_page > 0

\* the page never switched
SelectedPageZero(cmd) == 0

\* line 1198: the new current page
SelectedPage(cmd) == cmd[2]

\* lines 1192-1212
PageSel ==
    \E f \in Frames :
        /\ Receive(f)
        /\ IsPageSel(f)
        /\ IF chip_state = "SELECTED" /\ PageSelAnswered
           THEN LET page == SelectedPage(f) IN
                /\ current_page' = page
                /\ \E conf \in EmReadSet(em_image, emulator, BlockAddr(page, 1)),
                      kd \in EmReadSet(em_image, emulator, BlockAddr(page, 3)),
                      kc \in EmReadSet(em_image, emulator, BlockAddr(page, 4)) :
                      /\ diversified_key_d' = kd
                      /\ diversified_key_c' = kc
                      /\ personalization_mode' = BitSet(conf[8], 128)
                      /\ Transmit(CodeIso15693AsTag(AppendCrc(conf, 8), 10))
                /\ cipher_state' = [arr |-> "KD", idx |-> page]
                /\ epurse_update' = <<>>
                /\ UNCHANGED diversified_key
           ELSE /\ Transmit(<<>>)
                /\ UNCHANGED <<pageVars, keyVars, ctxVars, epurse_update>>
        /\ UNCHANGED <<decVars, simVars, idVars, ciphVars, sessVars, emulator,
                       card_challenge_data, resp_cc, n_updates, chip_state>>

\* lines 1214-1215: standard ISO15693 INVENTORY command, ignored
Inventory ==
    \E f \in Frames :
        /\ Receive(f)
        /\ IsInventory(f)
        /\ Transmit(<<>>)
        /\ UNCHANGED <<decVars, simVars, idVars, keyVars, ctxVars, ciphVars, sessVars,
                       memVars, pageVars, chip_state>>

\* a frame some branch of the chain takes
Handled(cmd) ==
    \/ IsActAll(cmd) \/ IsIdentify(cmd) \/ IsSelect(cmd) \/ IsReadBlock(cmd)
    \/ IsReadCheck(cmd) \/ IsCheck(cmd) \/ IsHalt(cmd) \/ IsRead4(cmd)
    \/ IsUpdate(cmd) \/ IsPageSel(cmd) \/ IsInventory(cmd)

\* lines 1217-1226: logged, not answered
Unhandled ==
    \E f \in Frames :
        /\ Receive(f)
        /\ ~Handled(f)
        /\ Transmit(<<>>)
        /\ UNCHANGED <<decVars, simVars, idVars, keyVars, ctxVars, ciphVars, sessVars,
                       memVars, pageVars, chip_state>>

\* lines 959-963, 1239-1243: GetIso15693CommandFromReader returns -1 on a button
\* press and doIClassSimulation returns true; lines 1299-1302, 1311: SimulateIClass
\* then simulates no further CSN
ButtonPress ==
    /\ pc = "loop"
    /\ DecodeReader' = ButtonReturn(DecodeReader)
    /\ reader_pc' = "button"
    /\ reader_ret' = DecodeReader'.byteCount
    /\ buttonPressed' = (reader_ret' < 0)
    /\ pc' = IF buttonPressed' THEN "done" ELSE "loop"
    /\ UNCHANGED <<samples, reader_in, last_bit, reader_oob, tagVars, extVars>>
    /\ UNCHANGED <<simVars, idVars, keyVars, ctxVars, ciphVars, csn_i, mac_responses,
                   memVars, pageVars, chip_state, receivedCmd, modulated_response, scn>>

(***************************************************************************)
(* SimulateIClass after doIClassSimulation returned                        *)
(***************************************************************************)
\* lines 1296-1302: the reader-attack loop goes on to the next CSN
AttackContinues ==
    /\ simType = ICLASS_SIM_MODE_READER_ATTACK
    /\ ~buttonPressed
    /\ csn_i + 1 < numberOfCSNS
    /\ (csn_i + 1) * 16 + 16 <= USB_CMD_DATA_SIZE

NextFrom(r) ==
    /\ simulationMode' = r.simulationMode
    /\ em_image' = r.em_image
    /\ emulator' = r.emulator
    /\ csn_i' = r.csn_i
    /\ mac_responses' = r.mac_responses
    /\ csn_data' = r.csn_data
    /\ anticoll_data' = r.anticoll_data
    /\ conf_block' = r.conf_block
    /\ card_challenge_data' = r.card_challenge_data
    /\ diversified_key_d' = r.diversified_key_d
    /\ diversified_key_c' = r.diversified_key_c
    /\ diversified_key' = "d"
    /\ cipher_state_KD' = r.cipher_state_KD
    /\ cipher_state_KC' = r.cipher_state_KC
    /\ cipher_state' = [arr |-> "KD", idx |-> 0]
    /\ current_page' = 0
    /\ page_size' = r.page_size
    /\ max_page' = r.max_page
    /\ personalization_mode' = r.personalization_mode
    /\ chip_state' = "IDLE"
    /\ resp_cc' = r.resp_cc
    /\ pc' = "loop"
    /\ buttonPressed' = FALSE
    /\ receivedCmd' = <<>>
    /\ modulated_response' = <<>>
    /\ scn' = 0
    /\ n_updates' = 0
    /\ epurse_update' = <<>>

NextCSN ==
    /\ pc = "returned"
    /\ AttackContinues
    /\ NextFrom(SessionStart(ModeOf(simType), em_image,
                             (0 :> HostCSN(csn_i + 1)) @@ emulator,
                             mac_responses, csn_i + 1, TRUE))
    /\ UNCHANGED <<decVars, simType, numberOfCSNS>>

\* lines 1311, 1321: SimulateIClass is done
Finish ==
    /\ pc = "returned"
    /\ ~AttackContinues
    /\ pc' = "done"
    /\ UNCHANGED <<decVars, simVars, idVars, keyVars, ctxVars, ciphVars, csn_i, mac_responses,
                   buttonPressed, memVars, pageVars, chip_state, receivedCmd,
                   modulated_response, scn>>

Next ==
    \/ ActAll \/ Identify \/ Select \/ ReadBlock \/ ReadCheck \/ Check \/ Halt
    \/ Read4 \/ Update \/ PageSel \/ Inventory \/ Unhandled \/ ButtonPress
    \/ NextCSN \/ Finish

Spec == Init /\ [][Next]_vars

(***************************************************************************)
(* GetIso15693CommandFromReader (armsrc/iso15693.c): the receive loop      *)
(* around the reader-frame decoder.  The sample stream of one call is      *)
(* either an encoded frame after unmodulated carrier, followed by carrier, *)
(* or arbitrary samples up to the end of a start of frame, followed by an  *)
(* end of frame.                                                           *)
(***************************************************************************)
iclassVars == <<simVars, idVars, keyVars, ctxVars, ciphVars, sessVars, memVars,
                pageVars, chip_state, receivedCmd, modulated_response, scn>>
exceptSniff == <<iclassVars, readerVars, tagVars, fskVars, timeVars, snoop15693,
                sim15693, selTag>>
exceptFSK == <<iclassVars, readerVars, tagVars, sniffVars, timeVars, snoop15693,
              sim15693, selTag>>
exceptSnoop15693 == <<iclassVars, samples, reader_in, reader_pc, reader_ret, last_bit,
                      reader_oob, tag_in, tag_pc, tag_ret, tag_eof_time, tag_oob,
                      sniffVars, fskVars, timeVars, sim15693, selTag>>
exceptSim15693 == <<iclassVars, readerVars, tagVars, sniffVars, fskVars, timeVars,
                    snoop15693, selTag>>
exceptSelTag == <<iclassVars, readerVars, tagVars, sniffVars, fskVars, timeVars,
                  snoop15693, sim15693>>

\* bytes the frames are made of
FrameBytes == {0, 27, 255}
\* longest frame, and largest buffer capacity max_len
MaxFrameBytes == 2

RECURSIVE FramesOfLen(_)
FramesOfLen(n) ==
    IF n = 0 THEN {<<>>}
    ELSE {Append(f, b) : f \in FramesOfLen(n - 1), b \in FrameBytes}

InputFrames == UNION {FramesOfLen(n) : n \in 0..MaxFrameBytes}

Four(x) == <<x, x, x, x>>

\* four samples per bit sent, a pause read as 0
RECURSIVE SamplesOf(_, _, _)
SamplesOf(bits, lo, hi) ==
    IF lo > hi THEN <<>>
    ELSE IF lo = hi
    THEN Four(1 - bits[lo])
    ELSE SamplesOf(bits, lo, (lo + hi) \div 2)
         \o SamplesOf(bits, ((lo + hi) \div 2) + 1, hi)

\* unmodulated carrier before the frame
Carrier == <<1, 1, 1, 1, 1, 1, 1, 1>>

ReaderWaveform(coding, cmd) ==
    LET bits == IF coding = "CODING_1_OUT_OF_4"
                THEN CodeIso15693AsReader(cmd, Len(cmd))
                ELSE CodeIso15693AsReader256(cmd, Len(cmd))
    IN  Carrier \o SamplesOf(bits, 1, Len(bits))

RECURSIVE WaveTable(_)
WaveTable(S) ==
    IF S = {} THEN <<>>
    ELSE LET w == CHOOSE x \in S : TRUE
         IN  <<[Coding |-> w.Coding, cmd |-> w.cmd,
                samples |-> ReaderWaveform(w.Coding, w.cmd)]>>
             \o WaveTable(S \ {w})

ReaderWaves ==
    WaveTable({[Coding |-> c, cmd |-> f] :
                 c \in {"CODING_1_OUT_OF_4", "CODING_1_OUT_OF_256"},
                 f \in InputFrames \cup {<<ICLASS_CMD_ACTALL>>}})

\* the first sample after the start of frame in a waveform
FirstDataSample == Len(Carrier) + (4 * Len(ToSendByte(132))) + 1

EmptyFrameWave(coding) ==
    CHOOSE i \in 1..Len(ReaderWaves) :
        ReaderWaves[i].Coding = coding /\ ReaderWaves[i].cmd = <<>>

DataStates == {"STATE_READER_RECEIVE_DATA_1_OUT_OF_4",
               "STATE_READER_RECEIVE_DATA_1_OUT_OF_256"}

\* the samples the next DMA bit can be
NextSamples ==
    IF reader_in.wave = 0 THEN {0, 1}
    ELSE IF reader_in.pos <= Len(ReaderWaves[reader_in.wave].samples)
    THEN {ReaderWaves[reader_in.wave].samples[reader_in.pos]}
    ELSE {1}

\* the stream after a sample that left the decoder as d
StreamAfter(d) ==
    IF reader_in.wave = 0
    THEN IF d.state \in DataStates
         THEN [wave |-> EmptyFrameWave(d.Coding), pos |-> FirstDataSample + 1]
         ELSE reader_in
    ELSE IF reader_in.pos <= Len(ReaderWaves[reader_in.wave].samples)
    THEN [reader_in EXCEPT !.pos = @ + 1]
    ELSE reader_in

\* line 1313; the caller's buffer holds max_len bytes.  Every call starts from
\* a zeroed, initialised decoder, so one call is followed
GetIso15693CommandFromReader ==
    /\ reader_pc = "idle"
    /\ \E max_len \in 1..MaxFrameBytes, w \in 0..Len(ReaderWaves) :
          /\ DecodeReader' = DecodeReaderInit(DecodeReaderZero,
                                              [i \in 1..max_len |-> 0], max_len)
          /\ reader_in' = [wave |-> w, pos |-> 1]
    /\ samples' = 0
    /\ reader_pc' = "running"
    /\ reader_ret' = 0
    /\ last_bit' = 0
    /\ reader_oob' = {}
    /\ reader_eof_time' = 0
    /\ UNCHANGED <<iclassVars, tagVars, sniffVars, fskVars, response_time, transmitted,
                   snoop15693, sim15693, selTag>>

\* line 1327: GetCountSspClk() & 0xfffffff8 when the DMA starts
dma_start_time == 1024

\* line 1352: the end of the EOF, from the samples counted since the DMA
\* started (the position reached in the sample stream)
EofTime(count) == dma_start_time + count - DELAY_READER_TO_ARM

\* lines 1350-1361: one sample of the DMA byte through the decoder; samples
\* is kept as its position in the DMA byte (8 = a whole byte handled)
HandleSample ==
    /\ reader_pc = "running"
    /\ \E bit \in NextSamples :
          LET r == Handle15693SampleFromReader(bit, DecodeReader)
          IN  /\ DecodeReader' = r.d
              /\ last_bit' = bit
              /\ reader_in' = StreamAfter(r.d)
              /\ reader_oob' = reader_oob
                     \cup {i \in r.wrote : i >= Len(DecodeReader.output)}
              /\ IF r.frame
                 THEN /\ reader_pc' = "gotFrame"
                      /\ reader_ret' = r.d.byteCount
                      /\ samples' = samples
                      /\ reader_eof_time' = EofTime(reader_in.pos - 1)
                 ELSE /\ samples' = IF samples = 8 THEN 1 ELSE samples + 1
                      /\ UNCHANGED <<reader_pc, reader_ret, reader_eof_time>>
    /\ UNCHANGED <<iclassVars, tagVars, sniffVars, fskVars, response_time, transmitted,
                   snoop15693, sim15693, selTag>>

\* lines 1363-1366, after a whole DMA byte
ReaderButtonPress ==
    /\ reader_pc = "running"
    /\ samples = 8
    /\ DecodeReader' = ButtonReturn(DecodeReader)
    /\ reader_pc' = "button"
    /\ reader_ret' = DecodeReader'.byteCount
    /\ UNCHANGED <<iclassVars, tagVars, extVars, samples, reader_in, last_bit, reader_oob>>

\* lines 1338-1343, before the next DMA byte is handled: the loop is left
\* and line 1384 returns the byte counter as it stands
ReaderOverrun ==
    /\ reader_pc = "running"
    /\ samples = 8
    /\ reader_pc' = "overrun"
    /\ reader_ret' = DecodeReader.byteCount
    /\ UNCHANGED <<iclassVars, tagVars, extVars, DecodeReader, samples, reader_in, last_bit,
                   reader_oob>>

\* iclass.c lines 959-963: doIClassSimulation takes the value returned into
\* len; a negative one ends the session as a button press, any other is the
\* length of the command in receivedCmd that the if/else chain dispatches
doIClassSimulationReceive ==
    /\ pc = "loop"
    /\ reader_pc \in {"gotFrame", "button", "overrun"}
    /\ IF reader_ret < 0
       THEN /\ buttonPressed' = TRUE
            /\ pc' = "done"
            /\ UNCHANGED receivedCmd
       ELSE /\ receivedCmd' = [i \in 1..reader_ret |->
                                 IF i <= Len(DecodeReader.output)
                                 THEN DecodeReader.output[i] ELSE 0]
            /\ pc' = "dispatch"
            /\ UNCHANGED buttonPressed
    /\ UNCHANGED <<decVars, simVars, idVars, keyVars, ctxVars, ciphVars, csn_i,
                   mac_responses, memVars, pageVars, chip_state, modulated_response,
                   scn>>

\* iclass.c lines 965-1226: the if/else chain on receivedCmd and len.  The
\* commands this receive loop is given are ACTALL, HALT and commands no
\* branch takes; the other branches are the actions of the simulation above
doIClassSimulationDispatch ==
    /\ pc = "dispatch"
    /\ IsActAll(receivedCmd) \/ IsHalt(receivedCmd) \/ ~Handled(receivedCmd)
    /\ IF IsActAll(receivedCmd) /\ ActAllAllowed(chip_state)
       THEN Transmit(resp_sof) /\ chip_state' = "ACTIVATED"
       ELSE IF IsHalt(receivedCmd) /\ chip_state = "SELECTED"
       THEN Transmit(resp_sof) /\ chip_state' = "HALTED"
       ELSE Transmit(<<>>) /\ UNCHANGED chip_state
    /\ pc' = "transmit"
    /\ UNCHANGED <<decVars, simVars, idVars, keyVars, ctxVars, ciphVars, csn_i,
                   mac_responses, buttonPressed, memVars, pageVars, receivedCmd, scn>>

\* iclass.c lines 1231-1235: a response is handed to TransmitTo15693Reader
\* with the start time reader_eof_time + DELAY_ICLASS_VCD_TO_VICC_SIM; then the
\* loop turns to the next command
ResponseTime(eof_time) == eof_time + DELAY_ICLASS_VCD_TO_VICC_SIM

doIClassSimulationTransmit ==
    /\ pc = "transmit"
    /\ IF modulated_response # <<>>
       THEN /\ response_time' = ResponseTime(reader_eof_time)
            /\ transmitted' = Append(transmitted,
                                     [cmd |-> modulated_response,
                                      start_time |-> response_time'])
       ELSE UNCHANGED <<response_time, transmitted>>
    /\ pc' = "next"
    /\ UNCHANGED <<readerVars, tagVars, sniffVars, fskVars, reader_eof_time, snoop15693,
                   sim15693, selTag>>
    /\ UNCHANGED <<simVars, idVars, keyVars, ctxVars, ciphVars, csn_i, mac_responses,
                   buttonPressed, memVars, pageVars, chip_state, receivedCmd,
                   modulated_response, scn>>

InitReader ==
    /\ simType = ICLASS_SIM_MODE_CSN_DEFAULT
    /\ numberOfCSNS = 0
    /\ InitFrom(SessionStart(ModeOf(simType), "single", (0 :> DefaultCSN),
                             <<>>, 0, FALSE))

NextReader ==
    \/ GetIso15693CommandFromReader
    \/ HandleSample
    \/ ReaderButtonPress \/ ReaderOverrun
    \/ doIClassSimulationReceive \/ doIClassSimulationDispatch
    \/ doIClassSimulationTransmit

SpecReader == InitReader /\ [][NextReader]_vars

(***************************************************************************)
(* GetIso15693AnswerFromTag (armsrc/iso15693.c): the receive loop around   *)
(* the tag-response decoder, at the high data rate.  The sample stream of  *)
(* one call is the waveform of an encoded frame at two amplitude levels,   *)
(* four samples per bit sent, between stretches of the low level.          *)
(***************************************************************************)
\* the amplitudes without and with subcarrier
TagLevels == {<<0, 161>>, <<0, 1000>>, <<20, 400>>}

\* samples of the low level before and after the frame
TagSilence == {<<>>, <<0, 0, 0, 0, 0>>}
TagTail == <<0, 0, 0, 0, 0, 0, 0, 0>>

\* four samples per bit sent of the bytes lo..hi of ToSend: 0 without, 1 with
\* subcarrier
RECURSIVE TagSamplesOf(_, _, _)
TagSamplesOf(bytes, lo, hi) ==
    IF lo > hi THEN <<>>
    ELSE IF lo = hi
    THEN LET bits == ToSendByte(bytes[lo])
         IN  Four(bits[1]) \o Four(bits[2]) \o Four(bits[3]) \o Four(bits[4])
             \o Four(bits[5]) \o Four(bits[6]) \o Four(bits[7]) \o Four(bits[8])
    ELSE TagSamplesOf(bytes, lo, (lo + hi) \div 2)
         \o TagSamplesOf(bytes, ((lo + hi) \div 2) + 1, hi)

TagWaveform(cmd, lead) ==
    LET bytes == CodeIso15693AsTag(cmd, Len(cmd))
    IN  lead \o TagSamplesOf(bytes, 1, Len(bytes)) \o TagTail

\* the start of frame alone (CodeIClassTagSOF), then silence
TagSofWaveform(lead) ==
    lead \o TagSamplesOf(CodeIClassTagSOF, 1, Len(CodeIClassTagSOF)) \o TagTail
    \o TagTail

RECURSIVE TagWaveTable(_)
TagWaveTable(S) ==
    IF S = {} THEN <<>>
    ELSE LET w == CHOOSE x \in S : TRUE
         IN  <<[cmd |-> w.cmd, lead |-> Len(w.lead), sof_only |-> w.sof_only,
                samples |-> IF w.sof_only THEN TagSofWaveform(w.lead)
                            ELSE TagWaveform(w.cmd, w.lead)]>>
             \o TagWaveTable(S \ {w})

TagWaves ==
    TagWaveTable({[cmd |-> f, lead |-> l, sof_only |-> FALSE] :
                     f \in InputFrames, l \in TagSilence}
                 \cup {[cmd |-> <<>>, lead |-> l, sof_only |-> TRUE] : l \in TagSilence})

\* the amplitude of the next sample
NextAmplitude ==
    tag_in.levels[TagWaves[tag_in.wave].samples[tag_in.pos] + 1]

\* line 633; the caller's buffer holds max_len bytes.  Every call starts from
\* a zeroed, initialised decoder, so one call is followed
GetIso15693AnswerFromTag ==
    /\ tag_pc = "idle"
    /\ \E max_len \in 1..MaxFrameBytes, w \in 1..Len(TagWaves), lv \in TagLevels :
          /\ DecodeTag' = DecodeTagInit(DecodeTagZero, [i \in 1..max_len |-> 0], max_len)
          /\ tag_in' = [wave |-> w, pos |-> 1, levels |-> lv, timeout |-> 0]
    /\ tag_pc' = "running"
    /\ tag_ret' = 0
    /\ tag_oob' = {}
    /\ UNCHANGED <<iclassVars, readerVars, extVars, tag_eof_time>>

\* line 655: GetCountSspClk() & 0xfffffff0 at the first sample
tag_dma_start_time == 2048

\* lines 674-677: the end of the EOF from the number of samples handled, less
\* the 8 samples that confirmed a start of frame with nothing after it
TagEofTimeNotShortened(d, count) == tag_dma_start_time + (count * 16) - DELAY_TAG_TO_ARM
TagEofTime(d, count) ==
    IF d.lastBit = "SOF_PART2"
    THEN tag_dma_start_time + (count * 16) - DELAY_TAG_TO_ARM - (8 * 16)
    ELSE tag_dma_start_time + (count * 16) - DELAY_TAG_TO_ARM

\* lines 658, 673-682 and 709: one sample through the decoder
TagHandleSample ==
    /\ tag_pc = "running"
    /\ tag_in.pos <= Len(TagWaves[tag_in.wave].samples)
    /\ LET r == Handle15693SamplesFromTag(NextAmplitude, DecodeTag, TRUE)
       IN  /\ DecodeTag' = r.d
           /\ tag_in' = [tag_in EXCEPT !.pos = @ + 1]
           /\ tag_oob' = tag_oob \cup {i \in r.wrote : i >= Len(DecodeTag.output)}
           /\ IF r.frame
              THEN /\ tag_pc' = "gotFrame"
                   /\ tag_ret' = IF r.d.len > r.d.max_len THEN -2 ELSE r.d.len
                   /\ tag_eof_time' = TagEofTime(r.d, tag_in.pos)
              ELSE UNCHANGED <<tag_pc, tag_ret, tag_eof_time>>
    /\ UNCHANGED <<iclassVars, readerVars, extVars>>

\* lines 684-687: more than timeout samples and still searching for the SOF
TagTimeout ==
    /\ tag_pc = "running"
    /\ tag_in.pos > 1
    /\ DecodeTag.state \in {"STATE_TAG_SOF_LOW", "STATE_TAG_SOF_RISING_EDGE",
                            "STATE_TAG_SOF_HIGH", "STATE_TAG_SOF_HIGH_END"}
    /\ tag_pc' = "timeout"
    /\ tag_ret' = -1
    /\ UNCHANGED <<iclassVars, readerVars, extVars, DecodeTag, tag_in, tag_eof_time,
                   tag_oob>>

\* lines 660-666: the circular buffer is about to overflow
TagOverrun ==
    /\ tag_pc = "running"
    /\ tag_in.pos > 1
    /\ tag_pc' = "overrun"
    /\ tag_ret' = -1
    /\ UNCHANGED <<iclassVars, readerVars, extVars, DecodeTag, tag_in, tag_eof_time,
                   tag_oob>>

NextTag == GetIso15693AnswerFromTag \/ TagHandleSample \/ TagTimeout \/ TagOverrun

SpecTag == InitReader /\ [][NextTag]_vars

(***************************************************************************)
(* GetIso15693AnswerFromTag on a sample stream without end, with the       *)
(* timeout the caller passes.  A stream is a head followed by a period     *)
(* repeated for ever: a tag's waveform and then silence, the same waveform *)
(* over and over, or a start of frame followed by the same half bit        *)
(* pattern without end.                                                    *)
(***************************************************************************)
TagTimeouts == {40, 250}
MaxTagSamples == 600

\* the samples of the start of frame of a tag (the first byte of ToSend)
TagSofSamples == TagSamplesOf(CodeIClassTagSOF, 1, 1)

RECURSIVE TagStreamTable(_)
TagStreamTable(k) ==
    IF k > Len(TagWaves) THEN <<>>
    ELSE <<[head |-> TagWaves[k].samples, period |-> <<0>>]>> \o TagStreamTable(k + 1)

TagStreams ==
    TagStreamTable(1)
    \o <<[head |-> <<>>, period |-> <<0>>],
         [head |-> <<>>, period |-> <<1>>],
         [head |-> <<>>, period |-> TagWaveform(<<255>>, <<>>)],
         [head |-> <<0, 0, 0>>, period |-> TagSofSamples \o TagTail],
         [head |-> TagSofSamples, period |-> <<0, 0, 0, 0, 1, 1, 1, 1>>],
         [head |-> TagSofSamples, period |-> <<1, 1, 1, 1, 0, 0, 0, 0>>],
         [head |-> TagSofSamples \o <<0, 0, 0, 0, 1, 1, 1, 1>>,
          period |-> <<1, 1, 1, 1, 0, 0, 0, 0>>],
         [head |-> TagSofSamples \o <<0, 0, 0, 0, 1, 1, 1, 1>>, period |-> <<1>>]>>

\* the amplitude of sample number tag_in.pos of the stream
StreamAmplitude ==
    LET st == TagStreams[tag_in.wave]
        k == tag_in.pos
    IN  tag_in.levels[1 + (IF k <= Len(st.head) THEN st.head[k]
                           ELSE st.period[1 + ((k - Len(st.head) - 1) % Len(st.period))])]

\* line 684: DecodeTag.state < STATE_TAG_RECEIVING_DATA
TagSofSearchLate(d) ==
    d.state \in {"STATE_TAG_SOF_RISING_EDGE", "STATE_TAG_SOF_HIGH",
                 "STATE_TAG_SOF_HIGH_END"}
TagSofSearch(d) ==
    d.state \in {"STATE_TAG_SOF_LOW", "STATE_TAG_SOF_RISING_EDGE",
                 "STATE_TAG_SOF_HIGH", "STATE_TAG_SOF_HIGH_END"}

\* lines 624-645: the call with the caller's timeout
TagReceive ==
    /\ tag_pc = "idle"
    /\ \E max_len \in 1..MaxFrameBytes, w \in 1..Len(TagStreams), lv \in TagLevels,
          timeout \in TagTimeouts :
          /\ DecodeTag' = DecodeTagInit(DecodeTagZero, [i \in 1..max_len |-> 0], max_len)
          /\ tag_in' = [wave |-> w, pos |-> 1, levels |-> lv, timeout |-> timeout]
    /\ tag_pc' = "running"
    /\ tag_ret' = 0
    /\ tag_oob' = {}
    /\ UNCHANGED <<iclassVars, readerVars, extVars, tag_eof_time>>

\* lines 647-688: one iteration of the loop with a sample to handle;
\* tag_in.pos is `samples` after the increment of line 652
TagReceiveSample ==
    /\ tag_pc = "running"
    /\ tag_in.pos <= MaxTagSamples
    /\ LET r == Handle15693SamplesFromTag(StreamAmplitude, DecodeTag, TRUE)
       IN  /\ DecodeTag' = r.d
           /\ tag_in' = [tag_in EXCEPT !.pos = @ + 1]
           /\ tag_oob' = tag_oob \cup {i \in r.wrote : i >= Len(DecodeTag.output)}
           /\ IF r.frame
              THEN /\ tag_pc' = "gotFrame"
                   /\ tag_ret' = IF r.d.len > r.d.max_len THEN -2 ELSE r.d.len
                   /\ tag_eof_time' = TagEofTime(r.d, tag_in.pos)
              ELSE IF tag_in.pos > tag_in.timeout /\ TagSofSearch(r.d)
              THEN /\ tag_pc' = "timeout"
                   /\ tag_ret' = -1
                   /\ UNCHANGED tag_eof_time
              ELSE UNCHANGED <<tag_pc, tag_ret, tag_eof_time>>
    /\ UNCHANGED <<iclassVars, readerVars, extVars>>

NextTagStream == TagReceive \/ TagReceiveSample \/ TagOverrun

\* the loop body runs whenever the DMA has a sample, and the stream has no
\* end
SpecTagStream == InitReader /\ [][NextTagStream]_vars /\ WF_vars(TagReceiveSample)

(***************************************************************************)
(* SnoopIClass (armsrc/iclass.c): the sniffer's loop, one sample byte per  *)
(* iteration.  Bits 4 and 5 of a sample byte are the reader side, the low  *)
(* four bits the tag side.  The sample stream of one call carries one      *)
(* frame: a reader command (1 out of 4) with the tag silent, or a tag      *)
(* response with the reader's field on, whole or cut off after its data.   *)
(***************************************************************************)
SnoopFrameLens == {2, 25, 33}

\* the frame of n bytes
SnoopFrame(n) == [i \in 1..n |-> (37 * i) % 256]

\* the sample bytes of the bits lo..hi sent: per bit `each` sample bytes of
\* the value on[bit + 1]
RECURSIVE SnoopSamplesOf(_, _, _, _, _)
SnoopSamplesOf(bits, lo, hi, each, on) ==
    IF lo > hi THEN <<>>
    ELSE IF lo = hi THEN [i \in 1..each |-> on[bits[lo] + 1]]
    ELSE SnoopSamplesOf(bits, lo, (lo + hi) \div 2, each, on)
         \o SnoopSamplesOf(bits, ((lo + hi) \div 2) + 1, hi, each, on)

\* the bits of the bytes of ToSend
RECURSIVE ToSendBits(_, _, _)
ToSendBits(bytes, lo, hi) ==
    IF lo > hi THEN <<>>
    ELSE IF lo = hi THEN ToSendByte(bytes[lo])
    ELSE ToSendBits(bytes, lo, (lo + hi) \div 2)
         \o ToSendBits(bytes, ((lo + hi) \div 2) + 1, hi)

\* a reader command: two sample bytes per bit sent, the field on (48) or
\* paused (0), between unmodulated field
SnoopReaderWave(cmd) ==
    LET bits == CodeIso15693AsReader(cmd, Len(cmd))
    IN  [i \in 1..21 |-> 48] \o SnoopSamplesOf(bits, 1, Len(bits), 2, <<48, 0>>)
        \o [i \in 1..8 |-> 48]

\* a tag response: four sample bytes per bit sent, with (49) or without (48)
\* subcarrier, the field on; cut: the EOF is missing
SnoopTagWave(cmd, cut) ==
    LET bytes == CodeIso15693AsTag(cmd, Len(cmd))
        bits == ToSendBits(bytes, 1, Len(bytes) - (IF cut THEN 1 ELSE 0))
    IN  [i \in 1..12 |-> 48] \o SnoopSamplesOf(bits, 1, Len(bits), 4, <<48, 49>>)
        \o [i \in 1..24 |-> 48]

\* a start of frame on the reader side alone: `lead` nibbles of unmodulated
\* field, the pause that starts the frame, the four slots of the first group
\* with a pause in the second half of the slots `drops`, and unmodulated
\* field again; two sample bytes per nibble, after `odd` sample bytes of
\* field (the first nibble handed to the decoder is made of one sample byte)
SnoopSofLeads == {7, 8, 9}
SnoopSofDrops == {{}, {1}, {2}, {3}, {4}, {1, 3}, {2, 4}, {3, 4}}
SnoopSofWave(odd, lead, drops) ==
    LET halves == [i \in 1..7 |-> IF i % 2 = 1 /\ ((i + 1) \div 2) \in drops
                                  THEN 0 ELSE 1]
        bits == [i \in 1..lead |-> 1] \o <<0>> \o halves \o <<1, 1, 1, 1>>
    IN  [i \in 1..odd |-> 48] \o SnoopSamplesOf(bits, 1, Len(bits), 2, <<0, 48>>)

RECURSIVE SnoopWaveTable(_)
SnoopWaveTable(S) ==
    IF S = {} THEN <<>>
    ELSE LET w == CHOOSE x \in S : TRUE
         IN  <<[w EXCEPT !.samples =
                   IF w.side = "reader" THEN SnoopReaderWave(SnoopFrame(w.n))
                   ELSE IF w.side = "sof" THEN SnoopSofWave(w.n, w.lead, w.drops)
                   ELSE SnoopTagWave(SnoopFrame(w.n), w.side = "tag cut")]>>
             \o SnoopWaveTable(S \ {w})

SnoopWaves ==
    SnoopWaveTable(
        {[side |-> sd, n |-> n, lead |-> 0, drops |-> {}, samples |-> <<>>] :
            sd \in {"reader", "tag", "tag cut"}, n \in SnoopFrameLens}
        \cup {[side |-> "sof", n |-> n, lead |-> l, drops |-> dr, samples |-> <<>>] :
                 n \in {0, 1}, l \in SnoopSofLeads, dr \in SnoopSofDrops})

\* LogTrace_ISO15693(output, len, ...): the bytes of the buffer that are logged
SnoopLog(output, len, readerToTag) ==
    [readerToTag |-> readerToTag, iLen |-> len,
     btBytes |-> SubSeq(output, 1, IF len < Len(output) THEN len ELSE Len(output))]

\* lines 586-651: the two decoders before the loop, on zeroed static storage
SnoopIClass ==
    /\ snoop.pc = "idle"
    /\ \E w \in 1..Len(SnoopWaves) :
          snoop' = [snoop EXCEPT !.pc = "running", !.wave = w, !.pos = 1]
    /\ Demod' = [Demod EXCEPT !.len = 0, !.state = "DEMOD_UNSYNCD"]
    /\ Uart' = [UartZero EXCEPT !.byteCntMax = 32, !.state = "STATE_UNSYNCD"]
    /\ UNCHANGED <<exceptSniff>>

\* lines 655-738: one iteration of the loop with a sample to handle
SnoopSample ==
    /\ snoop.pc = "running"
    /\ snoop.pos <= Len(SnoopWaves[snoop.wave].samples)
    /\ LET smpl == SnoopWaves[snoop.wave].samples[snoop.pos]
           decbyte == IF smpl % 16 # 0
                      THEN Xor4[snoop.decbyte][2 ^ (3 - snoop.div)]
                      ELSE snoop.decbyte
           decbyter == Xor8(snoop.decbyter * 4, ((smpl \div 16) % 4) * 16)
           div == snoop.div + 1
           reader == (div + 1) % 2 = 0
           u == IF reader THEN OutOfNDecoding((decbyter \div 16) % 16, Uart)
                ELSE [d |-> Uart, frame |-> FALSE, wrote |-> {}]
           demod == IF u.frame THEN [Demod EXCEPT !.state = "DEMOD_UNSYNCD"]
                    ELSE Demod
           tag == div > 3
           m == IF tag THEN ManchesterDecoding(decbyte % 16, demod)
                ELSE [d |-> demod, frame |-> FALSE, wrote |-> {}, error |-> 0]
       IN  /\ Uart' = IF u.frame
                      THEN [u.d EXCEPT !.state = "STATE_UNSYNCD", !.byteCnt = 0]
                      ELSE u.d
           /\ Demod' = IF m.frame
                       THEN [DemodZero EXCEPT !.output = m.d.output]
                       ELSE m.d
           /\ snoop' = [snoop EXCEPT
                 !.pos = @ + 1,
                 !.div = IF tag THEN 0 ELSE div,
                 !.decbyte = IF tag THEN 0 ELSE decbyte,
                 !.decbyter = IF reader THEN 0 ELSE decbyter,
                 !.uart_oob = @ \cup {i \in u.wrote : i >= ICLASS_BUFFER_SIZE},
                 !.demod_oob = @ \cup {i \in m.wrote : i >= ICLASS_BUFFER_SIZE},
                 !.trace = IF m.frame THEN SnoopLog(m.d.output, m.d.len, FALSE)
                           ELSE IF u.frame
                           THEN SnoopLog(u.d.output, u.d.byteCnt, TRUE)
                           ELSE @]
    /\ UNCHANGED <<exceptSniff>>

\* lines 658-664 and 740-743: the circular buffer blew or the button was
\* pressed
SnoopStop ==
    /\ snoop.pc = "running"
    /\ snoop.pos > 1
    /\ snoop' = [snoop EXCEPT !.pc = "done"]
    /\ UNCHANGED <<exceptSniff, Uart, Demod>>

NextSnoop == SnoopIClass \/ SnoopSample \/ SnoopStop

SpecSnoop == InitReader /\ [][NextSnoop]_vars

(***************************************************************************)
(* GetIso15693AnswerFromTagFSK (armsrc/iso15693.c): the receive loop       *)
(* around the two-subcarrier decoder, at the high data rate.  Each sample  *)
(* is any of the periods FskFreqs.                                         *)
(***************************************************************************)
\* a period of 484 kHz only, of both, of 424 kHz only, of neither
FskFreqs == {28, 30, 32, 0}

\* the response carries at most MaxFskBits bits
MaxFskBits == 9

\* line 947; the caller's buffer holds max_len bytes
GetIso15693AnswerFromTagFSK ==
    /\ fsk.pc = "idle"
    /\ \E max_len \in 1..MaxFrameBytes :
          DecodeTagFSK' = DecodeTagFSKInit([i \in 1..max_len |-> 0], max_len)
    /\ fsk' = [fsk EXCEPT !.pc = "running"]
    /\ UNCHANGED <<exceptFSK>>

\* LogTrace_ISO15693(DecodeTag.output, DecodeTag.len, ...): the logged bytes
FSKLogTrace(d) ==
    [iLen |-> d.len,
     btBytes |-> SubSeq(d.output, 1, IF d.len < Len(d.output) THEN d.len
                                      ELSE Len(d.output))]

\* lines 996-1005 and 1018-1031: one sample through the decoder
FSKHandleSample ==
    /\ fsk.pc = "running"
    /\ \E freq \in FskFreqs :
          LET r == Handle15693FSKSamplesFromTag(freq, DecodeTagFSK, TRUE)
              ret == IF r.d.len > r.d.max_len THEN -2 ELSE 0
          IN  /\ (8 * r.d.len) + r.d.bitCount <= MaxFskBits
              /\ DecodeTagFSK' = r.d
              /\ fsk' = [fsk EXCEPT
                    !.oob = @ \cup {i \in r.wrote : i >= Len(DecodeTagFSK.output)},
                    !.started = TRUE,
                    !.pc = IF r.frame THEN "returned" ELSE @,
                    !.ret = IF ~r.frame THEN @
                            ELSE IF ret < 0 THEN ret ELSE r.d.len,
                    !.trace = IF r.frame /\ ret >= 0 THEN <<FSKLogTrace(r.d)>> ELSE @]
    /\ UNCHANGED <<exceptFSK>>

\* lines 982-990 and 1018-1020: the circular buffer is about to overflow
\* (lines 1007-1010: so ends a call that is still before the data after timeout
\* samples)
FSKGiveUp ==
    /\ fsk.pc = "running"
    /\ fsk.started
    /\ fsk' = [fsk EXCEPT !.pc = "gave up", !.ret = -1]
    /\ UNCHANGED <<exceptFSK, DecodeTagFSK>>

NextFSK == GetIso15693AnswerFromTagFSK \/ FSKHandleSample \/ FSKGiveUp

SpecFSK == InitReader /\ [][NextFSK]_vars

(***************************************************************************)
(* SnoopIso15693 (armsrc/iso15693.c): the sniffer's loop, one DMA word per *)
(* iteration.  Bits 1 and 0 of a word are two samples of the reader side,  *)
(* the bits above them the amplitude of the tag's subcarrier.  A word is   *)
(* <<sample, sample, amplitude>>.  The stream of one call is a script of   *)
(* reader commands and tag responses, in turn, out of turn or overlapping. *)
(***************************************************************************)
\* DecodeTagReset
DecodeTagReset(d) ==
    [d EXCEPT !.posCount = 0, !.state = "STATE_TAG_SOF_LOW",
              !.previous_amplitude = MAX_PREVIOUS_AMPLITUDE]

\* the samples s of the reader side, two to a word, the tag silent
PairWords(s) ==
    [i \in 1..(Len(s) \div 2) |-> <<s[(2 * i) - 1], s[2 * i], 0>>] \o <<>>

\* a reader command (1 out of 4)
ReaderWords(cmd) ==
    CHOOSE r \in {PairWords(s) :
                    s \in {ReaderWaveform("CODING_1_OUT_OF_4", cmd) \o Carrier}} : TRUE

\* the samples s of the tag side while the reader keeps its field on
FieldOnWords(s) == [i \in 1..Len(s) |-> <<1, 1, 1000 * s[i]>>] \o <<>>

\* a tag response
TagWords(cmd) ==
    CHOOSE t \in {FieldOnWords(s) : s \in {TagWaveform(cmd, <<0, 0, 0, 0, 0>>)}} : TRUE

\* the response t with the command r starting delay words after it
Overlay(r, t, delay) ==
    [i \in 1..(IF Len(r) + delay > Len(t) THEN Len(r) + delay ELSE Len(t)) |->
        <<IF i > delay /\ i - delay <= Len(r) THEN r[i - delay][1] ELSE 1,
          IF i > delay /\ i - delay <= Len(r) THEN r[i - delay][2] ELSE 1,
          IF i <= Len(t) THEN t[i][3] ELSE 0>>] \o <<>>

OverlapWords(rcmd, tcmd, delay) ==
    CHOOSE o \in {Overlay(r, t, delay) :
                    r \in {ReaderWords(rcmd)}, t \in {TagWords(tcmd)}} : TRUE

SnoopCmds == {<<27>>, <<255, 0>>}
SnoopResps == {<<0>>, <<27, 255>>}
SnoopScripts == 1..6
\* the reader command that overlaps starts with the response or in its data
OverlapDelay == 40

SnoopScript(k, f, g) ==
    CASE k = 1 -> ReaderWords(f) \o TagWords(g)
      [] k = 2 -> TagWords(g) \o ReaderWords(f) \o TagWords(g)
      [] k = 3 -> ReaderWords(f) \o ReaderWords(f) \o TagWords(g) \o TagWords(g)
      [] k = 4 -> ReaderWords(f) \o OverlapWords(f, g, 0) \o TagWords(g)
      [] k = 5 -> ReaderWords(f) \o OverlapWords(f, g, OverlapDelay) \o TagWords(g)
      [] k = 6 -> OverlapWords(f, g, 0) \o OverlapWords(f, g, OverlapDelay)

RECURSIVE SnoopStreamTable(_)
SnoopStreamTable(S) ==
    IF S = {} THEN <<>>
    ELSE LET w == CHOOSE x \in S : TRUE
         IN  <<[script |-> w[1], cmd |-> w[2], resp |-> w[3],
                words |-> SnoopScript(w[1], w[2], w[3])]>>
             \o SnoopStreamTable(S \ {w})

SnoopStreams == SnoopStreamTable(SnoopScripts \X SnoopCmds \X SnoopResps)

\* line 1541: DecodeReader.state >= STATE_READER_AWAIT_2ND_RISING_EDGE_OF_SOF
ReaderActive(d) ==
    d.state \in {"STATE_READER_AWAIT_2ND_RISING_EDGE_OF_SOF",
                 "STATE_READER_AWAIT_END_OF_SOF_1_OUT_OF_4",
                 "STATE_READER_RECEIVE_DATA_1_OUT_OF_4",
                 "STATE_READER_RECEIVE_DATA_1_OUT_OF_256"}

\* line 1556: DecodeTag.state >= STATE_TAG_RECEIVING_DATA
TagActive(d) ==
    d.state \in {"STATE_TAG_RECEIVING_DATA", "STATE_TAG_EOF", "STATE_TAG_EOF_TAIL"}

\* line 1544: the tag side is decoded
TagDecoderAlways(ReaderIsActive, ExpectTagAnswer) == TRUE
TagDecoderEnabled(ReaderIsActive, ExpectTagAnswer) ==
    ~ReaderIsActive /\ ExpectTagAnswer

\* lines 1472-1478 and 1498-1500: the decoders and the flags before the loop
SnoopIso15693 ==
    /\ snoop15693.pc = "idle"
    /\ \E k \in 1..Len(SnoopStreams) :
          snoop15693' = [snoop15693 EXCEPT !.pc = "running", !.stream = k, !.pos = 1]
    /\ DecodeTag' = DecodeTagInit(DecodeTagZero, [i \in 1..MaxFrameBytes |-> 0],
                                  MaxFrameBytes)
    /\ DecodeReader' = DecodeReaderInit(DecodeReaderZero,
                                        [i \in 1..MaxFrameBytes |-> 0], MaxFrameBytes)
    /\ UNCHANGED exceptSnoop15693

\* lines 1522-1540: a sample of the reader side; on a frame the command is
\* logged, a tag answer is expected and both decoders are reset
SnoopReaderSample(bit, st) ==
    LET r == Handle15693SampleFromReader(bit, st.reader)
    IN  IF r.frame
        THEN [st EXCEPT !.reader = DecodeReaderReset(r.d),
                        !.tag = DecodeTagReset(st.tag),
                        !.expect = TRUE,
                        !.trace = Append(@, [readerToTag |-> TRUE,
                                             iLen |-> r.d.byteCount])]
        ELSE [st EXCEPT !.reader = r.d]

\* lines 1545-1555: a sample of the tag side; on a frame the response is
\* logged, no answer is expected any more and both decoders are reset
SnoopTagSample(amplitude, st) ==
    LET t == Handle15693SamplesFromTag(amplitude, st.tag, TRUE)
    IN  IF t.frame
        THEN [st EXCEPT !.tag = DecodeTagReset(t.d),
                        !.reader = DecodeReaderReset(st.reader),
                        !.expect = FALSE,
                        !.trace = Append(@, [readerToTag |-> FALSE, iLen |-> t.d.len])]
        ELSE [st EXCEPT !.tag = t.d]

\* the direction of the frame logged last
LastLogged(trace) ==
    IF trace = <<>> THEN "nothing"
    ELSE IF trace[Len(trace)].readerToTag THEN "reader" ELSE "tag"

\* lines 1501-1558: one iteration of the loop with a word to handle; fed
\* observes what was logged last when the tag decoder was given the word
SnoopIso15693Sample ==
    /\ snoop15693.pc = "running"
    /\ snoop15693.pos <= Len(SnoopStreams[snoop15693.stream].words)
    /\ \E w \in {SnoopStreams[snoop15693.stream].words[snoop15693.pos]},
          st0 \in {[reader |-> DecodeReader, tag |-> DecodeTag,
                    expect |-> snoop15693.ExpectTagAnswer,
                    trace |-> snoop15693.trace]} :
       \E st1 \in {IF ~snoop15693.TagIsActive THEN SnoopReaderSample(w[1], st0)
                    ELSE st0} :
       \E st2 \in {IF ~snoop15693.TagIsActive THEN SnoopReaderSample(w[2], st1)
                    ELSE st1} :
       \E ReaderIsActive \in {IF ~snoop15693.TagIsActive THEN ReaderActive(st2.reader)
                               ELSE snoop15693.ReaderIsActive} :
       \E tagFed \in {TagDecoderEnabled(ReaderIsActive, st2.expect)} :
       \E st3 \in {IF tagFed THEN SnoopTagSample(w[3], st2) ELSE st2} :
           /\ DecodeReader' = st3.reader
           /\ DecodeTag' = st3.tag
           /\ snoop15693' = [snoop15693 EXCEPT
                 !.pos = @ + 1,
                 !.ReaderIsActive = ReaderIsActive,
                 !.TagIsActive = IF tagFed THEN TagActive(st3.tag) ELSE @,
                 !.ExpectTagAnswer = st3.expect,
                 !.fed = IF tagFed THEN LastLogged(st2.trace) ELSE "none",
                 !.trace = st3.trace]
    /\ UNCHANGED exceptSnoop15693

\* lines 1508-1520: the circular buffer is about to overflow or the button
\* was pressed
SnoopIso15693Stop ==
    /\ snoop15693.pc = "running"
    /\ snoop15693.pos > 1
    /\ snoop15693' = [snoop15693 EXCEPT !.pc = "done"]
    /\ UNCHANGED <<exceptSnoop15693, DecodeReader, DecodeTag>>

NextSnoopIso15693 == SnoopIso15693 \/ SnoopIso15693Sample \/ SnoopIso15693Stop

SpecSnoopIso15693 == InitReader /\ [][NextSnoopIso15693]_vars

(***************************************************************************)
(* SimTagIso15693 (iso15693.c lines 1891-2204)                             *)
(***************************************************************************)
\* request flags, command codes, response flag and error codes of ISO 15693-3
\* as the firmware names them (ISO15693_REQ_SELECT is ISO15693.REQ_SELECT)
ISO15693 ==
    [REQ_SUBCARRIER_TWO |-> 1, REQ_DATARATE_HIGH |-> 2, REQ_INVENTORY |-> 4,
     REQ_PROTOCOL_EXT |-> 8, REQ_SELECT |-> 16, REQ_ADDRESS |-> 32,
     REQ_OPTION |-> 64, REQINV_AFI |-> 16, REQINV_SLOT1 |-> 32,
     INVENTORY |-> 1, STAYQUIET |-> 2, READBLOCK |-> 32, WRITEBLOCK |-> 33,
     LOCKBLOCK |-> 34, READ_MULTI_BLOCK |-> 35, SELECT |-> 37,
     RESET_TO_READY |-> 38, WRITE_AFI |-> 39, LOCK_AFI |-> 40,
     WRITE_DSFID |-> 41, LOCK_DSFID |-> 42, GET_SYSTEM_INFO |-> 43,
     READ_MULTI_SECSTATUS |-> 44,
     NOERROR |-> 0, RES_ERROR |-> 1, ERROR_CMD_NOT_SUP |-> 1,
     ERROR_BLOCK_UNAVAILABLE |-> 16, ERROR_BLOCK_LOCKED_ALREADY |-> 17,
     ERROR_BLOCK_LOCKED |-> 18]

\* capacity of cmd[] (iso15693.c lines 95 and 1909)
ISO15693_MAX_COMMAND_LENGTH == 45

\* CRC of ISO 15693: polynomial x^16 + x^12 + x^5 + 1, preset 0xFFFF, bytes
\* least significant bit first, the register complemented at the end
Iso15693Crc(v, n) == 65535 - CrcOver(v, 1, n, 65535)

\* the n bytes of req followed by the CRC, low byte first
Iso15693AddCrc(req, n) ==
    CHOOSE r \in {SubSeq(req, 1, n) \o <<crc % 256, crc \div 256>> :
                     crc \in {Iso15693Crc(req, n)}} : TRUE

\* the emulator memory (lines 1911-1921): uid, bytes per page and pages are not
\* written by the simulation; DSFID, AFI, their locks, the IC reference, the
\* block locks and the block data are sim15693.tag
SimPages == 2
SimBpP == 1
tagUid == <<1, 2, 3, 4, 5, 6, 7, 224>>
OtherUid == <<8, 2, 3, 4, 5, 6, 7, 224>>
SimAfi == 7
SimData == 17
EmulatorTags ==
    {[DSFID |-> 0, DSFIDLock |-> 0, AFI |-> a, AFILock |-> 0, IC |-> 0,
      Locks |-> [i \in 1..SimPages |-> 0],
      Data |-> [i \in 1..(SimPages * SimBpP) |-> 0]] : a \in {0}}

\* cmd[i]: past the received bytes comes the 0 of line 1934; no frame of
\* SimFrames makes the simulation read behind that
CmdByte(cmd, i) == IF i < Len(cmd) THEN cmd[i + 1] ELSE 0

\* lines 1945-1946: the last two bytes are the CRC of the bytes before them
CrcOk(cmd) ==
    \E crc \in {Iso15693Crc(cmd, Len(cmd) - 2)} :
        /\ crc % 256 = cmd[Len(cmd) - 1]
        /\ crc \div 256 = cmd[Len(cmd)]

\* the switch over cmd[1] (lines 2009-2177); cpt is the index of the first
\* parameter byte
SimTagCommand(cmd, cpt, s) ==
    LET t == s.tag
        pageNum == CmdByte(cmd, cpt)
        nbPages == CmdByte(cmd, cpt + 1)
        Err(e) == [s EXCEPT !.error = e]
        Ok(tag, recv) == [s EXCEPT !.tag = tag, !.recv = recv]
    IN  CASE cmd[2] = ISO15693.INVENTORY ->
                Ok(t, <<ISO15693.NOERROR, t.DSFID>> \o tagUid)
          [] cmd[2] = ISO15693.STAYQUIET -> [s EXCEPT !.quiet = TRUE]
          [] cmd[2] = ISO15693.READBLOCK ->
                IF pageNum >= SimPages THEN Err(ISO15693.ERROR_BLOCK_UNAVAILABLE)
                ELSE Ok(t, <<ISO15693.NOERROR>>
                           \o (IF BitSet(cmd[1], ISO15693.REQ_OPTION)
                               THEN <<t.Locks[pageNum + 1]>> ELSE <<>>)
                           \o [i \in 1..SimBpP |-> t.Data[pageNum * SimBpP + i]])
          [] cmd[2] = ISO15693.WRITEBLOCK ->
                IF pageNum >= SimPages THEN Err(ISO15693.ERROR_BLOCK_UNAVAILABLE)
                ELSE Ok([t EXCEPT !.Data =
                            [j \in 1..Len(t.Data) |->
                                IF j - 1 \in (pageNum * SimBpP)..(pageNum * SimBpP + SimBpP - 1)
                                THEN CmdByte(cmd, cpt + 1 + (j - 1 - pageNum * SimBpP))
                                ELSE t.Data[j]]],
                        <<ISO15693.NOERROR>>)
          [] cmd[2] = ISO15693.LOCKBLOCK ->
                IF pageNum >= SimPages THEN Err(ISO15693.ERROR_BLOCK_UNAVAILABLE)
                ELSE IF t.Locks[pageNum + 1] # 0
                THEN Err(ISO15693.ERROR_BLOCK_LOCKED_ALREADY)
                ELSE Ok([t EXCEPT !.Locks[pageNum + 1] = 1], <<ISO15693.NOERROR>>)
          [] cmd[2] = ISO15693.READ_MULTI_BLOCK ->
                IF pageNum + nbPages >= SimPages
                THEN Err(ISO15693.ERROR_BLOCK_UNAVAILABLE)
                ELSE Ok(t, <<ISO15693.NOERROR>>
                           \o [i \in 1..((nbPages + 1) * SimBpP) |->
                                  t.Data[pageNum * SimBpP + i]])
          [] cmd[2] = ISO15693.WRITE_AFI ->
                IF t.AFILock # 0 THEN Err(ISO15693.ERROR_BLOCK_LOCKED)
                ELSE Ok([t EXCEPT !.AFI = pageNum], <<ISO15693.NOERROR>>)
          [] cmd[2] = ISO15693.LOCK_AFI ->
                IF t.AFILock # 0 THEN Err(ISO15693.ERROR_BLOCK_LOCKED_ALREADY)
                ELSE Ok([t EXCEPT !.AFILock = 1], <<ISO15693.NOERROR>>)
          [] cmd[2] = ISO15693.WRITE_DSFID ->
                IF t.DSFIDLock # 0 THEN Err(ISO15693.ERROR_BLOCK_LOCKED)
                ELSE Ok([t EXCEPT !.DSFID = pageNum], <<ISO15693.NOERROR>>)
          [] cmd[2] = ISO15693.LOCK_DSFID ->
                IF t.DSFIDLock # 0 THEN Err(ISO15693.ERROR_BLOCK_LOCKED_ALREADY)
                ELSE Ok([t EXCEPT !.DSFIDLock = 1], <<ISO15693.NOERROR>>)
          [] cmd[2] = ISO15693.SELECT ->
                [s EXCEPT !.selected = TRUE, !.quiet = FALSE,
                          !.recv = <<ISO15693.NOERROR>>]
          [] cmd[2] = ISO15693.RESET_TO_READY ->
                [s EXCEPT !.selected = FALSE, !.quiet = FALSE,
                          !.recv = <<ISO15693.NOERROR>>]
          [] cmd[2] = ISO15693.GET_SYSTEM_INFO ->
                Ok(t, <<ISO15693.NOERROR, 15>> \o tagUid
                      \o <<t.DSFID, t.AFI, SimPages - 1, SimBpP - 1, t.IC>>)
          [] cmd[2] = ISO15693.READ_MULTI_SECSTATUS ->
                IF pageNum + nbPages >= SimPages
                THEN Err(ISO15693.ERROR_BLOCK_UNAVAILABLE)
                ELSE Ok(t, <<ISO15693.NOERROR>>
                           \o [i \in 1..(nbPages + 1) |-> t.Locks[pageNum + i]])
          [] OTHER -> Err(ISO15693.ERROR_CMD_NOT_SUP)

\* lines 2180-2198: the error response replaces the answer; an answer of at
\* least one byte gets its CRC and is transmitted
SimTagRespond(s) ==
    IF s.error # 0
    THEN [s EXCEPT !.path = "switch",
                   !.sent = Iso15693AddCrc(<<ISO15693.RES_ERROR, s.error>>, 2)]
    ELSE IF s.recv # <<>>
    THEN [s EXCEPT !.path = "switch", !.sent = Iso15693AddCrc(s.recv, Len(s.recv))]
    ELSE [s EXCEPT !.path = "switch"]

\* lines 1942-2007: the checks before the switch; a 'continue' sends nothing;
\* crcOk is CrcOk(cmd), which the frame table holds
SimTagRequest(cmd, crcOk, s) ==
    IF Len(cmd) <= 3 THEN [s EXCEPT !.path = "short"]
    ELSE IF ~crcOk THEN [s EXCEPT !.path = "crc"]
    ELSE LET h == [s EXCEPT !.highRate = BitSet(cmd[1], ISO15693.REQ_DATARATE_HIGH)]
             u == [h EXCEPT !.selected =
                       IF BitSet(cmd[1], ISO15693.REQ_SELECT) THEN FALSE ELSE @]
         IN  IF BitSet(cmd[1], ISO15693.REQ_INVENTORY) /\ ~s.quiet
             THEN IF /\ BitSet(cmd[1], ISO15693.REQINV_AFI)
                     /\ CmdByte(cmd, 2) # s.tag.AFI
                     /\ CmdByte(cmd, 2) # 0
                  THEN [h EXCEPT !.path = "afi"]
                  ELSE [h EXCEPT !.path = "inventory",
                           !.sent = Iso15693AddCrc(<<ISO15693.NOERROR, s.tag.DSFID>>
                                                   \o tagUid, 10)]
             ELSE IF BitSet(cmd[1], ISO15693.REQ_SELECT) /\ ~s.selected
             THEN [h EXCEPT !.path = "unselected"]
             ELSE IF BitSet(cmd[1], ISO15693.REQ_ADDRESS)
             THEN IF [i \in 1..8 |-> CmdByte(cmd, 1 + i)] # tagUid
                  THEN [u EXCEPT !.path = "address",
                                 !.selected = IF cmd[2] = ISO15693.SELECT
                                              THEN FALSE ELSE @]
                  ELSE SimTagRespond(SimTagCommand(cmd, 10, u))
             ELSE IF s.quiet THEN [u EXCEPT !.path = "quiet"]
             ELSE SimTagRespond(SimTagCommand(cmd, 2, u))

\* frames the reader side delivers: payloads that get a CRC, ...
Pad(p, n) == p \o [i \in 1..(n - Len(p)) |-> 0]
SimPayloads ==
    <<  <<2, ISO15693.INVENTORY>>,
        <<38, ISO15693.INVENTORY, 0>>,
        <<6, ISO15693.INVENTORY, 0>>,
        <<38, ISO15693.INVENTORY>> \o tagUid,
        <<54, ISO15693.INVENTORY, 0, 0>>,
        <<54, ISO15693.INVENTORY, SimAfi, 0>>,
        <<2, ISO15693.STAYQUIET>>,
        <<2, ISO15693.READBLOCK, 0>>,
        <<66, ISO15693.READBLOCK, SimPages - 1>>,
        <<2, ISO15693.READBLOCK, SimPages>>,
        <<2, ISO15693.READBLOCK, 255>>,
        <<2, ISO15693.WRITEBLOCK, 0>> \o [i \in 1..SimBpP |-> SimData],
        <<2, ISO15693.WRITEBLOCK, SimPages>> \o [i \in 1..SimBpP |-> SimData],
        <<2, ISO15693.LOCKBLOCK, 0>>,
        <<2, ISO15693.LOCKBLOCK, SimPages - 1>>,
        <<2, ISO15693.LOCKBLOCK, SimPages>>,
        <<2, ISO15693.READ_MULTI_BLOCK, 0, SimPages - 1>>,
        <<2, ISO15693.READ_MULTI_BLOCK, 0, SimPages - 2>>,
        <<2, ISO15693.READ_MULTI_SECSTATUS, 0, SimPages - 2>>,
        <<2, ISO15693.WRITE_AFI, SimAfi>>,
        <<2, ISO15693.LOCK_AFI>>,
        <<2, ISO15693.LOCK_DSFID>>,
        <<2, ISO15693.GET_SYSTEM_INFO>>,
        <<2, ISO15693.RESET_TO_READY>>,
        <<34, ISO15693.SELECT>> \o tagUid,
        <<34, ISO15693.SELECT>> \o OtherUid,
        <<34, ISO15693.READBLOCK>> \o tagUid \o <<SimPages>>,
        <<34, ISO15693.STAYQUIET>> \o tagUid,
        <<18, ISO15693.READBLOCK, 0>>,
        <<18, ISO15693.WRITEBLOCK, SimPages>> \o [i \in 1..SimBpP |-> SimData],
        <<2, 153>>,
        <<18, 153>>,
        <<34, 153>> \o tagUid,
        <<34, 153>> \o OtherUid,
        Pad(<<2, 153>>, ISO15693_MAX_COMMAND_LENGTH - 2),
        Pad(<<2, ISO15693.WRITEBLOCK, SimPages>>, ISO15693_MAX_COMMAND_LENGTH - 2)  >>

\* ... payloads that get a wrong CRC, ...
SimBadPayloads ==
    <<  <<2, ISO15693.WRITEBLOCK, 0>> \o [i \in 1..SimBpP |-> SimData],
        <<2, ISO15693.LOCKBLOCK, 0>>,
        <<2, ISO15693.STAYQUIET>>,
        <<34, ISO15693.SELECT>> \o tagUid,
        <<2, ISO15693.WRITE_AFI, SimAfi>>,
        <<2, 153>>,
        Pad(<<2, ISO15693.WRITEBLOCK, 0>>, ISO15693_MAX_COMMAND_LENGTH - 2)  >>

\* ... and frames of up to three bytes (the last one a request of one byte with
\* its right CRC)
SimShortFrames == << <<>>, <<2>>, <<2, ISO15693.STAYQUIET>>, Iso15693AddCrc(<<2>>, 1) >>

BadCrc(p) ==
    CHOOSE r \in {SubSeq(f, 1, Len(p) + 1) \o <<(f[Len(p) + 2] + 1) % 256>> :
                     f \in {Iso15693AddCrc(p, Len(p))}} : TRUE

\* the frames with the result of the CRC test of lines 1945-1946
SimFrame(kind, p) ==
    CHOOSE r \in {[cmd |-> f, crcOk |-> Len(f) > 3 /\ CrcOk(f)] :
                     f \in {IF kind = "good" THEN Iso15693AddCrc(p, Len(p))
                            ELSE IF kind = "bad" THEN BadCrc(p)
                            ELSE p \o <<>>}} : TRUE

RECURSIVE SimFrameTable(_, _, _, _)
SimFrameTable(kind, payloads, lo, hi) ==
    IF lo > hi THEN <<>>
    ELSE IF lo = hi THEN <<SimFrame(kind, payloads[lo])>>
    ELSE SimFrameTable(kind, payloads, lo, (lo + hi) \div 2)
         \o SimFrameTable(kind, payloads, (lo + hi) \div 2 + 1, hi)

SimFrames ==
    SimFrameTable("good", SimPayloads, 1, Len(SimPayloads))
    \o SimFrameTable("bad", SimBadPayloads, 1, Len(SimBadPayloads))
    \o SimFrameTable("short", SimShortFrames, 1, Len(SimShortFrames))

\* line 1934 stores cmd[cmd_len] = 0. With cmd_len = sizeof(cmd), and with the
\* -1 of a button press, the byte lies outside cmd[]: the store hits whatever
\* the compiler placed next to the array, nothing that is read again or one
\* of the flags kept on the stack
StackNeighbours(cmd_len) ==
    IF cmd_len \in 0..(ISO15693_MAX_COMMAND_LENGTH - 1)
    THEN {"none"} ELSE {"none", "selected", "quiet"}

Terminate(s, cmd_len, hit) ==
    [s EXCEPT !.selected = IF hit = "selected" THEN FALSE ELSE @,
              !.quiet = IF hit = "quiet" THEN FALSE ELSE @,
              !.oob = IF cmd_len \in 0..(ISO15693_MAX_COMMAND_LENGTH - 1)
                      THEN @ ELSE @ \cup {cmd_len}]

\* observer: the switch has run the case of StayQuiet, and not the case of
\* Select or ResetToReady since
StayQuietAccepted(before, s) ==
    IF s.path = "switch" /\ s.cmd[2] = ISO15693.STAYQUIET THEN TRUE
    ELSE IF s.path = "switch" /\ s.cmd[2] \in {ISO15693.SELECT, ISO15693.RESET_TO_READY}
    THEN FALSE
    ELSE before

\* lines 1891-1923: the flags start cleared, the tag is what the emulator
\* memory holds
SimTagIso15693 ==
    /\ sim15693.pc = "idle"
    /\ \E t \in EmulatorTags :
          sim15693' = [sim15693 EXCEPT !.pc = "loop", !.selected = FALSE,
                                       !.quiet = FALSE, !.highRate = FALSE,
                                       !.tag = t]
    /\ UNCHANGED <<exceptSim15693>>

\* one turn of the loop with a received frame (lines 1926-2199)
SimTagIso15693Loop ==
    /\ sim15693.pc = "loop"
    /\ \E k \in 1..Len(SimFrames) :
       \E f \in {SimFrames[k]} :
       \E hit \in StackNeighbours(Len(f.cmd)) :
       \E s0 \in {[Terminate(sim15693, Len(f.cmd), hit)
                      EXCEPT !.cmd = f.cmd, !.error = 0, !.recv = <<>>,
                             !.sent = <<>>]} :
       \E r \in {SimTagRequest(f.cmd, f.crcOk, s0)} :
          sim15693' = [r EXCEPT !.stayQuiet = StayQuietAccepted(@, r)]
    /\ UNCHANGED <<exceptSim15693>>

\* the button: GetIso15693CommandFromReader returns -1, line 1934 stores
\* cmd[-1], the length test continues and the loop condition ends the loop
SimTagButtonPress ==
    /\ sim15693.pc = "loop"
    /\ \E hit \in StackNeighbours(-1) :
          sim15693' = [Terminate(sim15693, -1, hit)
                          EXCEPT !.pc = "done", !.cmd = <<>>, !.error = 0,
                                 !.recv = <<>>, !.sent = <<>>, !.path = "button"]
    /\ UNCHANGED <<exceptSim15693>>

NextSim15693 == SimTagIso15693 \/ SimTagIso15693Loop \/ SimTagButtonPress

SpecSim15693 == InitReader /\ [][NextSim15693]_vars

(***************************************************************************)
(* selectIclassTag (iclass.c lines 1328-1392)                              *)
(***************************************************************************)
\* what a call of GetIso15693AnswerFromTag leaves (iso15693.c lines 624-698):
\* -1 after a timeout or an overrun, with eof_time untouched; -2 for a frame
\* longer than the buffer; else the length of the frame in response[], with
\* eof_time the end of its EOF
SelCsn == <<1, 2, 3, 4, 5, 6, 7, 8>>
SelAnticollCsn == <<27, 27, 27, 27, 27, 27, 27, 27>>
SelEofTimes == {4096, 4112}
TagAnswers ==
    {[ret |-> -1, resp |-> <<>>, eof_time |-> -1]}
    \cup {[ret |-> -2, resp |-> b \o b \o b \o b \o <<0>>, eof_time |-> t] :
             b \in {SelCsn}, t \in SelEofTimes}
    \cup {[ret |-> Len(b), resp |-> b, eof_time |-> t] :
             b \in {<<>>, SelCsn \o <<9>>, SelCsn \o <<9, 9>>,
                    SelAnticollCsn \o <<9, 9>>, SelCsn \o <<9, 9, 9>>},
             t \in SelEofTimes}

\* the assignment of an int to uint8_t len (lines 1375 and 1384)
Uint8(n) == n % 256

\* TransmitTo15693Tag (iso15693.c lines 251-262): the time the transfer
\* starts, late by 'missed' steps of 16 ticks when the clock has passed it
TransmitTime(start_time, missed) ==
    (((IF start_time < DELAY_ARM_TO_TAG THEN DELAY_ARM_TO_TAG ELSE start_time)
         - DELAY_ARM_TO_TAG) \div 16) * 16 + 16 * missed

\* ReaderTransmitIClass (lines 1328-1336): the frame, the time asked for and
\* the time the transfer started, which start_time holds afterwards
ReaderTransmitIClass(s, frame, start_time, missed) ==
    [s EXCEPT !.start_time = TransmitTime(start_time, missed),
              !.sent = Append(@, [frame |-> frame, start_time |-> start_time,
                                  at |-> TransmitTime(start_time, missed)])]

\* GetIso15693AnswerFromTag into resp[] and *eof_time
SelReceive(s, a) ==
    [s EXCEPT !.resp = IF a.ret = -1 THEN @ ELSE a.resp,
              !.eof_time = IF a.ret = -1 THEN @ ELSE a.eof_time,
              !.answers = Append(@, a)]

\* the next command goes out this long after the end of the response
SelNextStart(eof_time) == eof_time + DELAY_ICLASS_VICC_TO_VCD_READER

\* line 1379: the anticollision CSN goes into the select packet
SelectPacketUnfilled(resp) == <<ICLASS_CMD_SELECT, 0, 0, 0, 0, 0, 0, 0, 0>>
SelectPacket(resp) == <<ICLASS_CMD_SELECT>> \o SubSeq(resp, 1, 8)

\* lines 1357-1367: the call sends ActivateAll at the current time
selectIclassTag ==
    /\ selTag.pc = "idle"
    /\ \E now \in {0, 2000} : \E missed \in {0, 1} :
          selTag' = [ReaderTransmitIClass(selTag, <<ICLASS_CMD_ACTALL>>, now, missed)
                        EXCEPT !.pc = "act_all"]
    /\ UNCHANGED <<exceptSelTag>>

\* lines 1369-1373: card present? then Identify
selectIclassTagIdentify ==
    /\ selTag.pc = "act_all"
    /\ \E a \in TagAnswers : \E missed \in {0, 1} :
       \E s \in {SelReceive(selTag, a)} :
          selTag' = IF a.ret < 0
                    THEN [s EXCEPT !.pc = "done", !.ret = "false"]
                    ELSE [ReaderTransmitIClass(s, <<ICLASS_CMD_READ_OR_IDENTIFY>>,
                                               SelNextStart(s.eof_time), missed)
                             EXCEPT !.pc = "identify"]
    /\ UNCHANGED <<exceptSelTag>>

\* lines 1375-1382: ten bytes expected; then Select with the anticollision CSN
selectIclassTagSelect ==
    /\ selTag.pc = "identify"
    /\ \E a \in TagAnswers : \E missed \in {0, 1} :
       \E s \in {SelReceive(selTag, a)} :
          selTag' = IF Uint8(a.ret) # 10
                    THEN [s EXCEPT !.pc = "done", !.ret = "false"]
                    ELSE [ReaderTransmitIClass([s EXCEPT !.select = SelectPacket(s.resp)],
                                               SelectPacket(s.resp),
                                               SelNextStart(s.eof_time), missed)
                             EXCEPT !.pc = "select"]
    /\ UNCHANGED <<exceptSelTag>>

\* lines 1384-1391: ten bytes expected; the CSN is the first eight
selectIclassTagReturn ==
    /\ selTag.pc = "select"
    /\ \E a \in TagAnswers :
       \E s \in {SelReceive(selTag, a)} :
          selTag' = IF Uint8(a.ret) # 10
                    THEN [s EXCEPT !.pc = "done", !.ret = "false"]
                    ELSE [s EXCEPT !.pc = "done", !.ret = "true",
                                   !.card_data = SubSeq(s.resp, 1, 8)]
    /\ UNCHANGED <<exceptSelTag>>

NextSelTag ==
    \/ selectIclassTag
    \/ selectIclassTagIdentify
    \/ selectIclassTagSelect
    \/ selectIclassTagReturn

SpecSelTag == InitReader /\ [][NextSelTag]_vars


(***************************************************************************)
(* Properties                                                              *)
(***************************************************************************)
\* a step that dispatched a received frame (receivedCmd' is the frame)
Dispatched == pc = "loop" /\ ~buttonPressed'

csn8 == SubSeq(csn_data, 1, 8)
anticoll8 == SubSeq(anticoll_data, 1, 8)

\* the waveform of a tag frame carrying data followed by the CRC of data
FrameWithCrc(data) == CodeIso15693AsTag(AppendCrc(data, Len(data)), Len(data) + 2)

\* session state a dropped frame must leave alone
SessionState ==
    <<chip_state, current_page, card_challenge_data, diversified_key_d,
      diversified_key_c, cipher_state_KD, cipher_state_KC, cipher_state,
      diversified_key, personalization_mode, emulator>>

\* C1: from Idle, ActivateAll -> Identify -> Select(anticollision CSN) drives the
\* chip Idle -> Activated -> Activated -> Selected, and the replies are the bare SOF,
\* the rotated CSN + CRC, the real CSN + CRC.
C1_ActivateIdentifySelect ==
    /\ scn = 1 => chip_state = "ACTIVATED" /\ modulated_response = <<29>>
    /\ scn = 2 => /\ chip_state = "ACTIVATED"
                  /\ modulated_response = FrameWithCrc(rotateCSN(csn8))
    /\ scn = 3 => chip_state = "SELECTED" /\ modulated_response = FrameWithCrc(csn8)

C1_Witness ==
    scn = 3 /\ chip_state = "SELECTED" /\ anticoll8 # csn8 /\ Len(modulated_response) = 22

\* C2: a Halted chip stays Halted and answers nothing, whatever it receives, until a
\* 9-byte Select carries the real CSN; that Select is answered with the real
\* CSN + CRC and selects the chip.
C2_HaltedUntilReselect ==
    [][(Dispatched /\ chip_state = "HALTED") =>
          IF Len(receivedCmd') = 9 /\ receivedCmd'[1] = ICLASS_CMD_SELECT
             /\ SubSeq(receivedCmd', 2, 9) = csn8
          THEN chip_state' = "SELECTED" /\ modulated_response' = FrameWithCrc(csn8)
          ELSE chip_state' = "HALTED" /\ modulated_response' = <<>>]_vars

\* reselected from Halted: outside Halted a Select with the real CSN (different from
\* the anticollision CSN) is not answered
C2_Witness ==
    /\ chip_state = "SELECTED"
    /\ anticoll8 # csn8
    /\ receivedCmd = <<ICLASS_CMD_SELECT>> \o csn8
    /\ modulated_response = FrameWithCrc(csn8)

\* the rows of the dispatcher's transition table: command byte, exact length,
\* required chip state
TableRow(cmd, state) ==
    LET c == cmd[1]
        n == Len(cmd)
    IN \/ c = ICLASS_CMD_ACTALL /\ n = 1 /\ state # "HALTED"
       \/ c = ICLASS_CMD_READ_OR_IDENTIFY /\ n = 1 /\ state \in {"ACTIVATED", "SELECTED"}
       \/ c = ICLASS_CMD_SELECT /\ n = 9 /\ state \in {"ACTIVATED", "SELECTED", "HALTED"}
       \/ c = ICLASS_CMD_READ_OR_IDENTIFY /\ n = 4 /\ state = "SELECTED"
       \/ c = ICLASS_CMD_READ4 /\ n = 4 /\ state = "SELECTED"
       \/ c \in {ICLASS_CMD_READCHECK_KD, ICLASS_CMD_READCHECK_KC} /\ n = 2
          /\ state = "SELECTED"
       \/ c \in {ICLASS_CMD_CHECK_KD, ICLASS_CMD_CHECK_KC} /\ n = 9 /\ state = "SELECTED"
       \/ c = ICLASS_CMD_UPDATE /\ n \in {12, 14} /\ state = "SELECTED"
       \/ c = ICLASS_CMD_PAGESEL /\ n = 4 /\ state = "SELECTED"
       \/ c = ICLASS_CMD_HALT /\ n = 1 /\ state = "SELECTED"

\* C3: a frame whose command byte, length and chip state match no row of the
\* transition table is not answered and changes no session state.
C3_UnmatchedFrameDropped ==
    [][(Dispatched /\ ~TableRow(receivedCmd', chip_state)) =>
          modulated_response' = <<>> /\ UNCHANGED SessionState]_vars

\* a known command with a wrong length, received by a selected chip on another page
C3_Witness ==
    /\ receivedCmd = <<ICLASS_CMD_ACTALL, 0>>
    /\ chip_state = "SELECTED"
    /\ current_page = 1
    /\ modulated_response = <<>>

\* commands that end in a 2-byte CRC over the bytes after the command byte:
\* Read block, Read4 and PageSel of length 4, Update of length 14
CrcCarrying(cmd) ==
    \/ Len(cmd) = 4 /\ cmd[1] \in {ICLASS_CMD_READ_OR_IDENTIFY, ICLASS_CMD_READ4,
                                   ICLASS_CMD_PAGESEL}
    \/ Len(cmd) = 14 /\ cmd[1] = ICLASS_CMD_UPDATE

CrcValid(cmd) ==
    SubSeq(cmd, Len(cmd) - 1, Len(cmd))
        = ComputeCrc14443(CRC_ICLASS, SubSeq(cmd, 2, Len(cmd) - 2), Len(cmd) - 3)

\* C4: a CRC-carrying command whose CRC does not match its payload is not answered
\* and changes no session state.
C4_BadCrcDropped ==
    [][(Dispatched /\ CrcCarrying(receivedCmd') /\ ~CrcValid(receivedCmd')) =>
          modulated_response' = <<>> /\ UNCHANGED SessionState]_vars

\* C5: the current page index is within [0, max_page] (so within the 8 entries of
\* the cipher-state arrays) in every reachable state.
C5_PageWithinMaxPage ==
    current_page >= 0 /\ current_page <= max_page /\ current_page < CipherSlots

\* C6: emulating the default CSN, the sequence 0a, 0c, 81 + rotated CSN, read block 1
\* is answered by SOF, rotated CSN + CRC, real CSN + CRC, configuration block + CRC.
C6_DefaultCsnScenario ==
    simType = ICLASS_SIM_MODE_CSN_DEFAULT =>
        /\ scn = 1 => modulated_response = <<29>>
        /\ scn = 2 => modulated_response = FrameWithCrc(rotateCSN(DefaultCSN))
        /\ scn = 3 => modulated_response = FrameWithCrc(DefaultCSN)
        /\ scn = 4 => modulated_response = FrameWithCrc(SubSeq(conf_block, 1, 8))

\* the 8 data bytes a Read of blockNo is to return
ReadBlockData(blockNo) ==
    CASE blockNo = 0 -> {csn8}
      [] blockNo = 1 -> {SubSeq(conf_block, 1, 8)}
      [] blockNo = 2 -> {card_challenge_data}
      [] blockNo = 3 \/ blockNo = 4 -> {FF8}
      [] blockNo = 5 /\ simulationMode # ICLASS_SIM_MODE_FULL -> {FF8}
      [] OTHER -> EmReadSet(em_image, emulator, BlockAddr(current_page, blockNo))

\* C7: in Selected state every reply to a 4-byte Read block is the 8 bytes chosen by
\* the block number followed by their CRC (10 bytes).
C7_ReadBlockReply ==
    (Len(receivedCmd) = 4 /\ receivedCmd[1] = ICLASS_CMD_READ_OR_IDENTIFY
     /\ chip_state = "SELECTED" /\ modulated_response # <<>>) =>
        \E d \in ReadBlockData(receivedCmd[2]) : modulated_response = FrameWithCrc(d)

\* C8: Read block 3 and Read block 4 are answered with eight 0xFF bytes + CRC in every
\* mode that answers Read block, whatever the debit and credit keys are and after
\* any Update and PageSel.
C8_KeyBlocksReadAllOnes ==
    (Len(receivedCmd) = 4 /\ receivedCmd[1] = ICLASS_CMD_READ_OR_IDENTIFY
     /\ receivedCmd[2] \in {3, 4} /\ chip_state = "SELECTED"
     /\ simulationMode \in {ICLASS_SIM_MODE_FULL, ICLASS_SIM_MODE_EXIT_AFTER_MAC}) =>
        modulated_response = FrameWithCrc(FF8)

\* block 4 read after the credit key was updated and stored in page memory
C8_Witness ==
    /\ receivedCmd = WithCrc(ICLASS_CMD_READ_OR_IDENTIFY, <<4>>)
    /\ chip_state = "SELECTED"
    /\ simulationMode = ICLASS_SIM_MODE_FULL
    /\ BlockAddr(current_page, 4) \in DOMAIN emulator
    /\ diversified_key_c # FF8
    /\ modulated_response = FrameWithCrc(FF8)

C10_AllPagesDerivedAtStart ==
    (simulationMode = ICLASS_SIM_MODE_FULL /\ pc = "loop" /\ receivedCmd = <<>>) =>
        \A p \in 0..max_page :
            /\ cipher_state_KD[p] \in
                  {opt_doTagMAC_1(e, k) :
                      e \in EmReadSet(em_image, emulator, BlockAddr(p, 2)),
                      k \in EmReadSet(em_image, emulator, BlockAddr(p, 3))}
            /\ cipher_state_KC[p] \in
                  {opt_doTagMAC_1(e, k) :
                      e \in EmReadSet(em_image, emulator, BlockAddr(p, 2)),
                      k \in EmReadSet(em_image, emulator, BlockAddr(p, 4))}

\* the data bytes of an Update frame
UpdateDataOf(cmd) == SubSeq(cmd, 3, 10)

\* an Update the chip accepts in this step (receivedCmd' is the frame)
UpdateAccepted(blockNos) ==
    /\ Dispatched
    /\ Len(receivedCmd') \in {12, 14} /\ receivedCmd'[1] = ICLASS_CMD_UPDATE
    /\ receivedCmd'[2] \in blockNos
    /\ chip_state = "SELECTED"

\* the key the cipher states of the selected array are derived with
SelectedArrayKey ==
    IF cipher_state.arr = "KD" THEN diversified_key_d ELSE diversified_key_c

\* the MAC reply for reader nonce nr when the e-purse is cc
MacReplyFor(cc, nr) ==
    CodeIso15693AsTag(
        opt_doTagMAC_2(opt_doTagMAC_1(cc, SelectedArrayKey), nr, DiversifiedKeyValue), 4)

\* e-purse values of the stored pages
StoredEpurses == {ImageBlock(img, 32 * pg + 2) : img \in Images, pg \in 0..MaxPageByte}

\* C11: an accepted Update of block 2 with data D makes D the e-purse and re-derives
\* both cipher states of the current page from D; from then on (until a page switch)
\* ReadCheck replies D and a Check in full simulation replies the MAC for e-purse D,
\* which is not the MAC for any previous e-purse.
C11_EpurseUpdateInvalidatesMac ==
    [][/\ UpdateAccepted({2}) =>
            LET D == UpdateDataOf(receivedCmd') IN
            /\ card_challenge_data' = D
            /\ cipher_state_KD'[current_page] = opt_doTagMAC_1(D, diversified_key_d)
            /\ cipher_state_KC'[current_page] = opt_doTagMAC_1(D, diversified_key_c)
       /\ (Dispatched /\ epurse_update # <<>> /\ chip_state = "SELECTED"
           /\ IsReadCheck(receivedCmd')) =>
            modulated_response' = CodeIso15693AsTag(epurse_update, 8)
       /\ (Dispatched /\ epurse_update # <<>> /\ chip_state = "SELECTED"
           /\ simulationMode = ICLASS_SIM_MODE_FULL
           /\ Len(receivedCmd') = 9
           /\ receivedCmd'[1] \in {ICLASS_CMD_CHECK_KD, ICLASS_CMD_CHECK_KC}) =>
            LET nr == SubSeq(receivedCmd', 2, 5) IN
            /\ modulated_response' = MacReplyFor(epurse_update, nr)
            /\ \A old \in StoredEpurses \ {epurse_update} :
                  modulated_response' # MacReplyFor(old, nr)
      ]_vars

\* the same for the pages that have a cipher-state slot
C11_InArrayPages ==
    [][(Dispatched /\ epurse_update # <<>> /\ chip_state = "SELECTED"
        /\ simulationMode = ICLASS_SIM_MODE_FULL
        /\ current_page < CipherSlots
        /\ Len(receivedCmd') = 9
        /\ receivedCmd'[1] \in {ICLASS_CMD_CHECK_KD, ICLASS_CMD_CHECK_KC}) =>
            modulated_response' = MacReplyFor(epurse_update, SubSeq(receivedCmd', 2, 5))
      ]_vars

\* the slots of a cipher-state array other than idx keep their value
OtherSlotsKept(arr, arrNext, idx) ==
    \A q \in DOMAIN arr : q # idx => (q \in DOMAIN arrNext /\ arrNext[q] = arr[q])

\* the key a page holds before any Update: the stored key block in full simulation,
\* the all-zero default elsewhere
OriginalKey(keyBlk) ==
    IF simulationMode = ICLASS_SIM_MODE_FULL
    THEN ImageBlock(em_image, BlockAddr(current_page, keyBlk))
    ELSE Zero8

\* C12: an accepted Update of block 3 (block 4) with data D sets the debit (credit)
\* key to D in personalization mode and to old key XOR D otherwise, re-derives that
\* key's cipher state of the current page from the current e-purse and leaves the
\* other key and every other cipher state alone; in application mode the same
\* Update received twice in a row restores the original key.
C12_KeyUpdate ==
    [][/\ UpdateAccepted({3}) =>
            LET D == UpdateDataOf(receivedCmd')
                k == IF personalization_mode THEN D ELSE XorBlock(diversified_key_d, D)
            IN /\ diversified_key_d' = k
               /\ cipher_state_KD'[current_page] = opt_doTagMAC_1(card_challenge_data, k)
               /\ OtherSlotsKept(cipher_state_KD, cipher_state_KD', current_page)
               /\ UNCHANGED <<diversified_key_c, cipher_state_KC, card_challenge_data>>
               /\ (~personalization_mode /\ n_updates = 1 /\ receivedCmd = receivedCmd')
                    => diversified_key_d' = OriginalKey(3)
       /\ UpdateAccepted({4}) =>
            LET D == UpdateDataOf(receivedCmd')
                k == IF personalization_mode THEN D ELSE XorBlock(diversified_key_c, D)
            IN /\ diversified_key_c' = k
               /\ cipher_state_KC'[current_page] = opt_doTagMAC_1(card_challenge_data, k)
               /\ OtherSlotsKept(cipher_state_KC, cipher_state_KC', current_page)
               /\ UNCHANGED <<diversified_key_d, cipher_state_KD, card_challenge_data>>
               /\ (~personalization_mode /\ n_updates = 1 /\ receivedCmd = receivedCmd')
                    => diversified_key_c' = OriginalKey(4)
      ]_vars

\* the debit key of page 0 after the same Update of block 3 was received twice in
\* application mode: the key read back from page memory is the original one
C12_Witness ==
    /\ simulationMode = ICLASS_SIM_MODE_FULL
    /\ ~personalization_mode
    /\ n_updates = 2
    /\ Len(receivedCmd) = 12 /\ receivedCmd[1] = ICLASS_CMD_UPDATE /\ receivedCmd[2] = 3
    /\ diversified_key_d = ImageBlock(em_image, 3)
    /\ diversified_key_d # UpdateDataOf(receivedCmd)
    /\ BlockAddr(current_page, 3) \in DOMAIN emulator
    /\ emulator[BlockAddr(current_page, 3)] = diversified_key_d

\* a key overwritten in personalization mode
C12_WitnessPersonalization ==
    /\ personalization_mode
    /\ n_updates = 1
    /\ Len(receivedCmd) = 12 /\ receivedCmd[1] = ICLASS_CMD_UPDATE /\ receivedCmd[2] = 4
    /\ diversified_key_c = UpdateDataOf(receivedCmd)
    /\ cipher_state_KC[current_page] = opt_doTagMAC_1(card_challenge_data, diversified_key_c)

\* C13: every Update of length 12 or 14 received in Selected state is answered with
\* the 8 data bytes it carried followed by their CRC, for every block number and
\* simulation mode; an Update received in another state is not answered and writes
\* nothing.
C13_UpdateEcho ==
    [][(/\ Dispatched
        /\ Len(receivedCmd') \in {12, 14}
        /\ receivedCmd'[1] = ICLASS_CMD_UPDATE) =>
            IF chip_state = "SELECTED"
            THEN modulated_response' = FrameWithCrc(SubSeq(receivedCmd', 3, 10))
            ELSE /\ modulated_response' = <<>>
                 /\ UNCHANGED <<emulator, card_challenge_data, resp_cc, diversified_key_d,
                                diversified_key_c, cipher_state_KD, cipher_state_KC>>
      ]_vars

\* a 14-byte Update of a data block echoed outside full simulation
C13_Witness ==
    /\ simulationMode = ICLASS_SIM_MODE_CSN
    /\ chip_state = "SELECTED"
    /\ Len(receivedCmd) = 14 /\ receivedCmd[1] = ICLASS_CMD_UPDATE /\ receivedCmd[2] = 6
    /\ Len(modulated_response) = 22
    /\ modulated_response = FrameWithCrc(SubSeq(receivedCmd, 3, 10))

\* block address of block blockNo of page pg
PageBlockAddr(pg, blockNo) == pg * (page_size \div 8) + blockNo

\* a PageSel the chip receives in this step while Selected
PageSelReceived ==
    /\ Dispatched
    /\ Len(receivedCmd') = 4 /\ receivedCmd'[1] = ICLASS_CMD_PAGESEL
    /\ chip_state = "SELECTED"

\* C14: an accepted PageSel for page p makes p the current page, reloads both keys
\* and the personalization flag from page p's stored blocks, selects page p's cipher
\* state and replies page p's configuration block + CRC; Read, Read4 and Update then
\* address the memory of the current page.  A single-page chip or another simulation
\* mode does not answer PageSel and keeps the current page.
C14_PageSel ==
    [][/\ (PageSelReceived /\ simulationMode = ICLASS_SIM_MODE_FULL /\ max_page > 0) =>
            LET p == receivedCmd'[2] IN
            /\ current_page' = p
            /\ diversified_key_d' \in EmReadSet(em_image, emulator, PageBlockAddr(p, 3))
            /\ diversified_key_c' \in EmReadSet(em_image, emulator, PageBlockAddr(p, 4))
            /\ cipher_state' = [arr |-> "KD", idx |-> p]
            /\ \E conf \in EmReadSet(em_image, emulator, PageBlockAddr(p, 1)) :
                  /\ personalization_mode' = (conf[8] >= 128)
                  /\ modulated_response' = FrameWithCrc(conf)
       /\ (PageSelReceived /\ ~(simulationMode = ICLASS_SIM_MODE_FULL /\ max_page > 0)) =>
            /\ modulated_response' = <<>>
            /\ UNCHANGED <<current_page, diversified_key_d, diversified_key_c,
                           cipher_state, personalization_mode>>
       /\ (/\ Dispatched /\ chip_state = "SELECTED"
           /\ simulationMode = ICLASS_SIM_MODE_FULL
           /\ Len(receivedCmd') = 4 /\ receivedCmd'[1] = ICLASS_CMD_READ_OR_IDENTIFY
           /\ receivedCmd'[2] \notin {3, 4}) =>
            \E blk \in EmReadSet(em_image, emulator,
                                 PageBlockAddr(current_page, receivedCmd'[2])) :
                modulated_response' = FrameWithCrc(blk)
       /\ (/\ Dispatched /\ chip_state = "SELECTED"
           /\ simulationMode = ICLASS_SIM_MODE_FULL
           /\ Len(receivedCmd') = 4 /\ receivedCmd'[1] = ICLASS_CMD_READ4) =>
            \E b0 \in EmReadSet(em_image, emulator,
                                PageBlockAddr(current_page, receivedCmd'[2])),
               b1 \in EmReadSet(em_image, emulator,
                                PageBlockAddr(current_page, receivedCmd'[2]) + 1),
               b2 \in EmReadSet(em_image, emulator,
                                PageBlockAddr(current_page, receivedCmd'[2]) + 2),
               b3 \in EmReadSet(em_image, emulator,
                                PageBlockAddr(current_page, receivedCmd'[2]) + 3) :
                modulated_response' = FrameWithCrc(b0 \o b1 \o b2 \o b3)
       /\ (UpdateAccepted({1, 2, 6}) /\ simulationMode = ICLASS_SIM_MODE_FULL) =>
            LET a == PageBlockAddr(current_page, receivedCmd'[2]) IN
            /\ a \in DOMAIN emulator'
            /\ emulator'[a] = UpdateDataOf(receivedCmd')
            /\ \A b \in DOMAIN emulator : b # a =>
                  (b \in DOMAIN emulator' /\ emulator'[b] = emulator[b])
      ]_vars

\* a block of page 1 read back after PageSel 1 and an Update of that block
C14_Witness ==
    /\ simulationMode = ICLASS_SIM_MODE_FULL
    /\ chip_state = "SELECTED"
    /\ current_page = 1
    /\ diversified_key_d = ImageBlock(em_image, 32 + 3)
    /\ personalization_mode
    /\ receivedCmd = WithCrc(ICLASS_CMD_READ_OR_IDENTIFY, <<2>>)
    /\ (32 + 2) \in DOMAIN emulator
    /\ modulated_response = FrameWithCrc(UpdateData)

\* the capture record of the session that is running
CaptureRecord(buf) == buf[csn_i + 1]

\* a Check the chip receives in this step in the credential-capture mode
CaptureCheck ==
    /\ Dispatched
    /\ simulationMode = ICLASS_SIM_MODE_EXIT_AFTER_MAC
    /\ Len(receivedCmd') = 9
    /\ receivedCmd'[1] \in {ICLASS_CMD_CHECK_KD, ICLASS_CMD_CHECK_KC}

\* C15: in the credential-capture mode a Check received in Selected state is not
\* answered, its 8 payload bytes are stored at offset 8 of the capture record (the
\* rest of the buffer is kept) and the session ends without a button press; a Check
\* received in another state records nothing and does not end the session.
C15_CaptureCheck ==
    [][CaptureCheck =>
          IF chip_state = "SELECTED"
          THEN /\ modulated_response' = <<>>
               /\ SubSeq(CaptureRecord(mac_responses'), 9, 16) = SubSeq(receivedCmd', 2, 9)
               /\ SubSeq(CaptureRecord(mac_responses'), 1, 8)
                     = SubSeq(CaptureRecord(mac_responses), 1, 8)
               /\ \A k \in DOMAIN mac_responses : k # csn_i + 1 =>
                     mac_responses'[k] = mac_responses[k]
               /\ pc' = "returned"
               /\ ~buttonPressed'
          ELSE /\ modulated_response' = <<>>
               /\ UNCHANGED mac_responses
               /\ pc' = "loop"
      ]_vars

\* the session of the second CSN ended by a Check: both records hold an e-purse and
\* the reader's nonce and MAC
C15_Witness ==
    /\ simType = ICLASS_SIM_MODE_READER_ATTACK
    /\ csn_i = 1
    /\ pc = "returned"
    /\ ~buttonPressed
    /\ modulated_response = <<>>
    /\ \A k \in {1, 2} :
          /\ SubSeq(mac_responses[k], 1, 8) = <<254, 255, 255, 255, 255, 255, 255, 255>>
          /\ SubSeq(mac_responses[k], 9, 16) = Nonce \o ReaderMac

(***************************************************************************)
(* Properties of the reader-frame decoder                                  *)
(***************************************************************************)
\* a step that put one sample through the decoder and ended a bit period of a
\* data-receiving state
BitPeriodEnds ==
    /\ reader_pc = "running"
    /\ reader_pc' \in {"running", "gotFrame"}
    /\ DecodeReader.state \in DataStates
    /\ DecodeReader.posCount = 7
    /\ DecodeReader'.posCount = 0

\* the period that just ended had its pause in the second half only
EofPeriod == DecodeReader'.sum1 <= 1 /\ DecodeReader'.sum2 >= 3

\* C16: the sample handler reports a complete frame only at the end of a bit period
\* of a data-receiving state that shows the end-of-frame pattern, and only when
\* at least one byte was decoded since the start of frame; an end of frame seen
\* with no byte decoded puts the decoder in Unsynced and reports nothing.
C16_FrameComplete ==
    [][/\ (reader_pc = "running" /\ reader_pc' = "gotFrame") =>
              /\ BitPeriodEnds
              /\ EofPeriod
              /\ DecodeReader.byteCount >= 1
              /\ reader_ret' = DecodeReader.byteCount
       /\ (BitPeriodEnds /\ EofPeriod /\ DecodeReader.byteCount = 0) =>
              /\ DecodeReader'.state = "STATE_READER_UNSYNCD"
              /\ DecodeReader'.byteCount = 0
              /\ reader_pc' = "running"
      ]_vars

\* a two-byte frame was reported at its end of frame
C16_Witness ==
    /\ reader_pc = "gotFrame"
    /\ reader_ret = 2
    /\ DecodeReader.state = "STATE_READER_UNSYNCD"
    /\ DecodeReader.sum1 <= 1
    /\ DecodeReader.sum2 >= 3

\* the end of frame of an empty frame has been dropped
C16_WitnessEmptyFrame ==
    /\ reader_pc = "running"
    /\ reader_in.wave # 0
    /\ ReaderWaves[reader_in.wave].cmd = <<>>
    /\ reader_in.pos = FirstDataSample + 16
    /\ DecodeReader.state = "STATE_READER_UNSYNCD"
    /\ DecodeReader.byteCount = 0

\* a step that put one sample (last_bit') through the decoder
SampleHandled ==
    /\ reader_pc = "running"
    /\ reader_pc' \in {"running", "gotFrame"}

\* the sample is an edge, or the lack of one, outside the window the start of
\* frame allows at this position: first low pulse too short or too long, second
\* falling edge too early or high phase too long, second rising edge too early or
\* second low phase too long, a pause before the end of the 1 out of 4 SOF
SofOutOfWindow ==
    LET st == DecodeReader.state
        pos == DecodeReader.posCount + 1
        is256 == DecodeReader.Coding = "CODING_1_OUT_OF_256"
    IN  /\ SampleHandled
        /\ \/ /\ st = "STATE_READER_AWAIT_1ST_RISING_EDGE_OF_SOF"
              /\ \/ last_bit' = 1 /\ pos < 4
                 \/ last_bit' = 0 /\ pos > 5
           \/ /\ st = "STATE_READER_AWAIT_2ND_FALLING_EDGE_OF_SOF"
              /\ \/ last_bit' = 0 /\ (pos < 20 \/ (pos >= 23 /\ pos < 28))
                 \/ last_bit' = 1 /\ pos > 29
           \/ /\ st = "STATE_READER_AWAIT_2ND_RISING_EDGE_OF_SOF"
              /\ \/ last_bit' = 1 /\ pos < (IF is256 THEN 32 ELSE 24)
                 \/ last_bit' = 0 /\ pos > (IF is256 THEN 34 ELSE 26)
           \/ /\ st = "STATE_READER_AWAIT_END_OF_SOF_1_OUT_OF_4"
              /\ last_bit' = 0

\* the step wrote no byte and reported no frame
NothingEmitted ==
    /\ DecodeReader'.output = DecodeReader.output
    /\ DecodeReader'.byteCount = DecodeReader.byteCount
    /\ reader_oob' = reader_oob
    /\ reader_pc' = "running"

\* C17 as stated: an out-of-window SOF edge puts the decoder in Unsynced at once,
\* with nothing emitted and no frame reported.
C17_OutOfWindowUnsynced ==
    [][SofOutOfWindow =>
          /\ DecodeReader'.state = "STATE_READER_UNSYNCD"
          /\ NothingEmitted
      ]_vars

\* C17 amended: an out-of-window SOF edge abandons the start of frame at once with
\* nothing emitted and no frame reported; the decoder goes to Unsynced when the
\* offending sample is low, and straight to waiting for the first falling edge
\* (where Unsynced goes on a high sample) when the offending sample is high.
C17_OutOfWindowAbandons ==
    [][SofOutOfWindow =>
          /\ DecodeReader'.state = IF last_bit' = 0
                                   THEN "STATE_READER_UNSYNCD"
                                   ELSE "STATE_READER_AWAIT_1ST_FALLING_EDGE_OF_SOF"
          /\ NothingEmitted
      ]_vars

\* a second falling edge that came too early for either coding has put the
\* decoder in Unsynced
C17_Witness ==
    /\ reader_pc = "running"
    /\ reader_in.wave = 0
    /\ last_bit = 0
    /\ DecodeReader.state = "STATE_READER_UNSYNCD"
    /\ DecodeReader.posCount = 24

\* a first low pulse of two samples has put the decoder back to waiting for the
\* first falling edge
C17_WitnessShortPulse ==
    /\ reader_pc = "running"
    /\ reader_in.wave = 0
    /\ last_bit = 1
    /\ DecodeReader.state = "STATE_READER_AWAIT_1ST_FALLING_EDGE_OF_SOF"
    /\ DecodeReader.posCount = 3

\* the call is fed the waveform of a frame of at least one byte that fits the
\* caller's buffer
RoundTripInput ==
    /\ reader_pc # "idle"
    /\ reader_in.wave # 0
    /\ Len(ReaderWaves[reader_in.wave].cmd) \in 1..DecodeReader.byteCountMax

\* the samples of the waveform up to the end of its end-of-frame symbol (two bit
\* periods); the four padding bits after it are not counted
EndOfEof(w) == Len(w.samples) - 16

\* C18: a frame of at least one byte encoded by CodeIso15693AsReader or
\* CodeIso15693AsReader256 and fed, after unmodulated carrier, to the freshly
\* initialised decoder is reported complete at the last sample of its end of
\* frame, not before and not later, with byteCount the frame's length and output
\* the frame's bytes.
C18_ReaderRoundTrip ==
    RoundTripInput =>
        LET w == ReaderWaves[reader_in.wave]
        IN  /\ reader_pc = "running" => reader_in.pos <= EndOfEof(w)
            /\ reader_pc = "gotFrame" =>
                  /\ reader_in.pos = EndOfEof(w) + 1
                  /\ reader_ret = Len(w.cmd)
                  /\ DecodeReader.byteCount = Len(w.cmd)
                  /\ SubSeq(DecodeReader.output, 1, Len(w.cmd)) = w.cmd
                  /\ reader_oob = {}

\* the 1 out of 256 waveform of the bytes 0xFF, 0x1B was decoded to those bytes
C18_Witness ==
    /\ reader_pc = "gotFrame"
    /\ reader_in.wave # 0
    /\ ReaderWaves[reader_in.wave].Coding = "CODING_1_OUT_OF_256"
    /\ ReaderWaves[reader_in.wave].cmd = <<255, 27>>
    /\ reader_ret = 2
    /\ DecodeReader.output = <<255, 27>>

\* the 1 out of 4 waveform of the bytes 0x1B, 0xFF was decoded to those bytes
C18_Witness1OutOf4 ==
    /\ reader_pc = "gotFrame"
    /\ reader_in.wave # 0
    /\ ReaderWaves[reader_in.wave].Coding = "CODING_1_OUT_OF_4"
    /\ ReaderWaves[reader_in.wave].cmd = <<27, 255>>
    /\ reader_ret = 2
    /\ DecodeReader.output = <<27, 255>>

\* C20: the decoder never writes output[i] with i >= max_len, its byte counter
\* never exceeds max_len, and GetIso15693CommandFromReader never returns a length
\* greater than max_len.
C20_WithinCapacity ==
    /\ reader_oob = {}
    /\ DecodeReader.byteCount <= DecodeReader.byteCountMax
    /\ reader_pc \in {"gotFrame", "button", "overrun"} =>
          reader_ret <= DecodeReader.byteCountMax

\* the parts of C20 one at a time
C20_NoWritePastBuffer == reader_oob = {}
C20_ReturnWithinCapacity ==
    reader_pc \in {"gotFrame", "button", "overrun"} =>
        reader_ret <= DecodeReader.byteCountMax

\* a frame that is reported never exceeds the capacity
C20_FrameWithinCapacity ==
    reader_pc = "gotFrame" => reader_ret \in 1..DecodeReader.byteCountMax

(***************************************************************************)
(* Properties of the tag-response decoder                                  *)
(***************************************************************************)
\* the call is fed the waveform of a frame of at least one byte that fits the
\* caller's buffer
TagRoundTripInput ==
    /\ tag_pc # "idle"
    /\ Len(TagWaves[tag_in.wave].cmd) \in 1..DecodeTag.max_len

\* the samples of the waveform up to the end of its EOF
TagEndOfEof(w) == Len(w.samples) - Len(TagTail)

\* C19: a frame of at least one byte encoded by CodeIso15693AsTag and fed to the
\* freshly initialised decoder at the high rate, four samples per bit sent and two
\* clean amplitude levels, is reported complete on the first sample after its
\* EOF, not before and not later, with len the frame's length and output the
\* frame's bytes (so each byte was assembled least significant bit first).
C19_TagRoundTrip ==
    TagRoundTripInput =>
        LET w == TagWaves[tag_in.wave]
        IN  /\ tag_pc = "running" => tag_in.pos <= TagEndOfEof(w) + 1
            /\ tag_pc = "gotFrame" =>
                  /\ tag_in.pos = TagEndOfEof(w) + 2
                  /\ tag_ret = Len(w.cmd)
                  /\ DecodeTag.len = Len(w.cmd)
                  /\ SubSeq(DecodeTag.output, 1, Len(w.cmd)) = w.cmd
                  /\ tag_oob = {}

\* the waveform of the bytes 0x1B, 0xFF was decoded to those bytes
C19_Witness ==
    /\ tag_pc = "gotFrame"
    /\ TagWaves[tag_in.wave].cmd = <<27, 255>>
    /\ tag_in.levels = <<20, 400>>
    /\ tag_ret = 2
    /\ DecodeTag.output = <<27, 255>>

\* C21: when a tag response carries more bytes than max_len, the decoder never
\* writes response[i] with i >= max_len, and as soon as its length counter has
\* passed max_len GetIso15693AnswerFromTag has returned -2, whether the last bit
\* of the overflowing byte is a logic 0 or a logic 1.
C21_OverflowReported ==
    /\ tag_oob = {}
    /\ DecodeTag.len > DecodeTag.max_len => tag_pc = "gotFrame" /\ tag_ret = -2

\* the parts of C21 one at a time: the write, and the report on each path
C21_TagNoWritePastBuffer == tag_oob = {}
C21_Logic1OverflowReported ==
    DecodeTag.len > DecodeTag.max_len /\ DecodeTag.lastBit = "LOGIC1" =>
        tag_pc = "gotFrame" /\ tag_ret = -2
C21_Logic0OverflowReported ==
    DecodeTag.len > DecodeTag.max_len /\ DecodeTag.lastBit = "LOGIC0" =>
        tag_pc = "gotFrame" /\ tag_ret = -2

(***************************************************************************)
(* Properties of the iCLASS sniffer                                        *)
(***************************************************************************)
\* C22: for every sample stream, OutOfNDecoding never writes Uart.output at an
\* index >= 32 and ManchesterDecoding never writes Demod.output at an index
\* >= 32, the error path that appends diagnostic bytes included.
C22_SnifferWithinBuffers ==
    /\ snoop.uart_oob = {}
    /\ snoop.demod_oob = {}

\* the parts of C22 one at a time
C22_UartWithinBuffer == snoop.uart_oob = {}
C22_DemodWithinBuffer == snoop.demod_oob = {}
C22_DemodErrorWithinBuffer ==
    snoop.wave # 0 /\ SnoopWaves[snoop.wave].n < ICLASS_BUFFER_SIZE =>
        snoop.demod_oob = {}

\* the sniffer decodes the frames it is fed
SnoopDecodesReader ==
    /\ snoop.wave # 0
    /\ SnoopWaves[snoop.wave].side = "reader"
    /\ SnoopWaves[snoop.wave].n = 2
    /\ snoop.trace = [readerToTag |-> TRUE, iLen |-> 2, btBytes |-> SnoopFrame(2)]
SnoopDecodesTag ==
    /\ snoop.wave # 0
    /\ SnoopWaves[snoop.wave].side = "tag"
    /\ SnoopWaves[snoop.wave].n = 2
    /\ snoop.trace = [readerToTag |-> FALSE, iLen |-> 2, btBytes |-> SnoopFrame(2)]

(***************************************************************************)
(* Properties of the two-subcarrier tag decoder                            *)
(***************************************************************************)
\* C23: when the two-subcarrier decoder has entered its error state after the
\* SOF, GetIso15693AnswerFromTagFSK does not return the partially decoded bytes
\* as a frame (a non-negative length) and does not log them.
C23_ErrorNotEmitted ==
    fsk.pc = "returned" /\ DecodeTagFSK.state = "STATE_FSK_ERROR" =>
        fsk.ret < 0 /\ fsk.trace = <<>>

\* a call returned from the error state with one decoded byte as its frame
C23_ErrorEmitted ==
    /\ fsk.pc = "returned"
    /\ DecodeTagFSK.state = "STATE_FSK_ERROR"
    /\ fsk.ret = 1
    /\ fsk.trace = <<[iLen |-> 1, btBytes |-> <<DecodeTagFSK.output[1]>>]>>

(***************************************************************************)
(* C24: an overrun of the circular buffer while the emulator waits for a   *)
(* reader command is surfaced: GetIso15693CommandFromReader returns no     *)
(* non-negative length for the interrupted reception and                   *)
(* doIClassSimulation dispatches no command after it.                      *)
(***************************************************************************)
C24_OverrunSurfaced ==
    reader_pc = "overrun" => reader_ret < 0 /\ pc # "dispatch"

\* a command of one byte whose end of frame was never received is dispatched
C24_PartialDispatched ==
    /\ reader_pc = "overrun"
    /\ DecodeReader.state \in DataStates
    /\ pc = "dispatch"
    /\ Len(receivedCmd) = 1

(***************************************************************************)
(* C25: a button press while the emulator waits for a command ends the     *)
(* session in an orderly way.  GetIso15693CommandFromReader returns -1;    *)
(* doIClassSimulation returns true without dispatching a command, changing *)
(* session state or sending a response; SimulateIClass then simulates no   *)
(* further CSN; and doIClassSimulation returns true only after a button    *)
(* press.                                                                  *)
(***************************************************************************)
\* a step in which the receiver returns because of the button
ButtonReturned == pc = "loop" /\ reader_pc' = "button"

C25_ButtonEndsSession ==
    /\ [][ButtonReturned =>
             /\ reader_ret' = -1
             /\ buttonPressed'
             /\ pc' = "done"
             /\ UNCHANGED <<SessionState, receivedCmd, modulated_response,
                            mac_responses, resp_cc, csn_i>>]_vars
    /\ [][buttonPressed => csn_i' = csn_i]_vars
    /\ [](buttonPressed => reader_pc = "button" /\ reader_ret = -1)

\* the button is pressed in the reader-attack mode in the middle of a session,
\* while a CSN is left to simulate
C25_Witness ==
    /\ buttonPressed
    /\ pc = "done"
    /\ reader_ret = -1
    /\ simType = ICLASS_SIM_MODE_READER_ATTACK
    /\ csn_i + 1 < numberOfCSNS
    /\ chip_state = "SELECTED"

\* the receive loop: whatever the decoder holds when the button is pressed,
\* the call returns -1 and the session ends without a dispatch
C25_ReaderButtonReturns ==
    reader_pc = "button" => reader_ret = -1 /\ pc # "dispatch"

(***************************************************************************)
(* C26: in tag emulation decoding, dispatching and transmitting are        *)
(* strictly sequenced.  Each received command causes at most one response  *)
(* transmission; the transmission is scheduled at the command's EOF time   *)
(* plus 116 ticks and handed to the transmitter before the loop turns to   *)
(* the next command; and session state changes in the dispatch only.       *)
(***************************************************************************)
\* the end of the EOF of the command received, once the stream is past it
CommandEofTime ==
    dma_start_time + (reader_in.pos - 2) - DELAY_READER_TO_ARM

C26_Sequenced ==
    /\ Len(transmitted) <= 1
    /\ transmitted # <<>> =>
          /\ reader_pc = "gotFrame"
          /\ transmitted[1].start_time = CommandEofTime + 116
    /\ pc = "next" /\ modulated_response # <<>> => transmitted # <<>>
    /\ pc \in {"loop", "transmit", "next"} => chip_state \in {"IDLE", "ACTIVATED"}
    /\ pc = "loop" => chip_state = "IDLE" /\ transmitted = <<>>

\* the same of the commands whose EOF was received
C26_SequencedAfterEof ==
    reader_pc = "gotFrame" =>
        /\ Len(transmitted) <= 1
        /\ transmitted # <<>> => transmitted[1].start_time = CommandEofTime + 116
        /\ pc = "next" /\ modulated_response # <<>> => transmitted # <<>>
        /\ pc = "loop" => chip_state = "IDLE" /\ transmitted = <<>>

\* an ACTALL answered: the response follows the EOF by 116 ticks
C26_AnsweredAfterEof ==
    /\ reader_pc = "gotFrame"
    /\ pc = "next"
    /\ chip_state = "ACTIVATED"
    /\ Len(transmitted) = 1
    /\ transmitted[1].cmd = resp_sof

\* a response to a command whose EOF never came, scheduled at tick 116 of the
\* clock, before the DMA was started
C26_ScheduledWithoutEof ==
    /\ reader_pc = "overrun"
    /\ pc = "next"
    /\ Len(transmitted) = 1
    /\ transmitted[1].start_time = 116
    /\ transmitted[1].start_time < dma_start_time

(***************************************************************************)
(* C27: in SnoopIso15693 at most one direction is active in every loop     *)
(* iteration (ReaderIsActive and TagIsActive are never both true); the tag *)
(* decoder is given samples only between a logged reader command and the   *)
(* next logged tag response; and so every logged tag frame follows a       *)
(* reader frame logged after the previous tag frame.                       *)
(***************************************************************************)
C27_OneDirection ==
    /\ ~(snoop15693.ReaderIsActive /\ snoop15693.TagIsActive)
    /\ snoop15693.fed \in {"none", "reader"}
    /\ \A i \in 1..Len(snoop15693.trace) :
          ~snoop15693.trace[i].readerToTag =>
              i > 1 /\ snoop15693.trace[i - 1].readerToTag

\* a response sent before any command and a second response in a row went
\* by, a command and its response are logged, and the tag is being decoded
C27_Witness ==
    /\ snoop15693.pc = "running"
    /\ SnoopStreams[snoop15693.stream].script = 2
    /\ Len(snoop15693.trace) = 2
    /\ ~snoop15693.trace[2].readerToTag
    /\ snoop15693.trace[2].iLen = Len(SnoopStreams[snoop15693.stream].resp)

\* the reader starts a command while the response is under way: the tag
\* stays the active side
C27_WitnessOverlap ==
    /\ snoop15693.pc = "running"
    /\ SnoopStreams[snoop15693.stream].script = 5
    /\ snoop15693.TagIsActive
    /\ snoop15693.fed = "reader"
    /\ SnoopStreams[snoop15693.stream].words[snoop15693.pos - 1][1] = 0

(***************************************************************************)
(* C28: the single-subcarrier tag decoder takes a start of frame alone as  *)
(* a complete frame.  A valid SOF followed by one bit period without       *)
(* modulation makes Handle15693SamplesFromTag report a frame of zero       *)
(* bytes and GetIso15693AnswerFromTag return 0; the end-of-frame time      *)
(* reported is shortened by 8 sample periods (128 ticks) exactly when the  *)
(* frame ended so.                                                         *)
(***************************************************************************)
\* the samples of a waveform up to the end of its start of frame
TagEndOfSof(w) == w.lead + 32

\* the time of the sample at position pos, as the receive loop counts
TagSampleTime(pos) == tag_dma_start_time + (16 * pos) - DELAY_TAG_TO_ARM

C28_LoneSof ==
    tag_pc = "gotFrame" =>
        LET w == TagWaves[tag_in.wave]
            returnedAt == tag_in.pos - 1
        IN  IF w.sof_only
            THEN /\ tag_ret = 0
                 /\ DecodeTag.len = 0
                 /\ returnedAt = TagEndOfSof(w) + 8 + 1
                 /\ tag_eof_time = TagSampleTime(returnedAt) - 128
            ELSE tag_eof_time = TagSampleTime(returnedAt)

\* a start of frame alone was received
C28_Witness ==
    /\ tag_pc = "gotFrame"
    /\ TagWaves[tag_in.wave].sof_only
    /\ TagWaves[tag_in.wave].lead = 5
    /\ tag_ret = 0
    /\ tag_eof_time = TagSampleTime(5 + 32 + 1)

(***************************************************************************)
(* Properties of the ISO 15693 tag simulation                              *)
(***************************************************************************)
\* a turn of the loop of SimTagIso15693 with a received frame (sim15693'.cmd)
SimTagTurn == sim15693.pc = "loop" /\ sim15693'.pc = "loop"

\* what the tag keeps between requests
SimTagState(s) == <<s.selected, s.quiet, s.tag.Locks, s.tag.AFI, s.tag.DSFID, s.tag.Data>>

\* the frame is too short for the CRC test, or one that CrcOk refuses
SimTagRefused(cmd) ==
    \E k \in 1..Len(SimFrames) :
        SimFrames[k].cmd = cmd /\ (Len(cmd) <= 3 \/ ~SimFrames[k].crcOk)

\* C29: in SimTagIso15693 a received frame of 3 bytes or fewer, or one whose
\* last two bytes are not the CRC of the bytes before them, is dropped
\* silently: no response is sent and the selected flag, the quiet flag, the lock
\* flags, AFI, DSFID and the block data are unchanged.
C29_DroppedSilently ==
    [][SimTagTurn /\ SimTagRefused(sim15693'.cmd)
          => /\ sim15693'.sent = <<>>
             /\ SimTagState(sim15693') = SimTagState(sim15693)]_vars

\* C29, the part that holds: no response is sent for such a frame, and the tag
\* is unchanged when the frame is shorter than cmd[]
C29_DroppedBelowCapacity ==
    [][SimTagTurn /\ SimTagRefused(sim15693'.cmd)
          => /\ sim15693'.sent = <<>>
             /\ sim15693'.path \in {"short", "crc"}
             /\ Len(sim15693'.cmd) < ISO15693_MAX_COMMAND_LENGTH
                   => SimTagState(sim15693') = SimTagState(sim15693)]_vars


\* the command codes the switch of SimTagIso15693 has a case for
SimTagImplemented ==
    {ISO15693.INVENTORY, ISO15693.STAYQUIET, ISO15693.READBLOCK,
     ISO15693.WRITEBLOCK, ISO15693.LOCKBLOCK, ISO15693.READ_MULTI_BLOCK,
     ISO15693.WRITE_AFI, ISO15693.LOCK_AFI, ISO15693.WRITE_DSFID,
     ISO15693.LOCK_DSFID, ISO15693.SELECT, ISO15693.RESET_TO_READY,
     ISO15693.GET_SYSTEM_INFO, ISO15693.READ_MULTI_SECSTATUS}

\* the request reached the switch with a command code that has no case
SimTagUnsupported ==
    /\ SimTagTurn
    /\ sim15693'.path = "switch"
    /\ sim15693'.cmd[2] \notin SimTagImplemented

\* the block number of a request: the byte after the command code, or after
\* the uid of an addressed request
SimTagBlockNumber(cmd) ==
    CmdByte(cmd, IF BitSet(cmd[1], ISO15693.REQ_ADDRESS) THEN 10 ELSE 2)

\* the request reached the switch as a ReadBlock, WriteBlock or LockBlock of a
\* block the tag does not have
SimTagBlockUnavailable ==
    /\ SimTagTurn
    /\ sim15693'.path = "switch"
    /\ sim15693'.cmd[2] \in {ISO15693.READBLOCK, ISO15693.WRITEBLOCK, ISO15693.LOCKBLOCK}
    /\ SimTagBlockNumber(sim15693'.cmd) >= SimPages

\* error flag, error code and CRC
SimTagErrorResponse(e) == Iso15693AddCrc(<<ISO15693.RES_ERROR, e>>, 2)

\* C30: in SimTagIso15693 a CRC-valid request that passes the select, address
\* and quiet filters with a command code the simulator does not implement is
\* answered with the error flag, the code 'command not supported' and the CRC,
\* and changes no tag state; a ReadBlock, WriteBlock or LockBlock whose block
\* number is >= the tag's page count is answered with the error 'block
\* unavailable' and changes no data or lock.
C30_ErrorAnswered ==
    [][/\ SimTagUnsupported
          => /\ sim15693'.sent = SimTagErrorResponse(ISO15693.ERROR_CMD_NOT_SUP)
             /\ SimTagState(sim15693') = SimTagState(sim15693)
       /\ SimTagBlockUnavailable
          => /\ sim15693'.sent = SimTagErrorResponse(ISO15693.ERROR_BLOCK_UNAVAILABLE)
             /\ sim15693'.tag.Data = sim15693.tag.Data
             /\ sim15693'.tag.Locks = sim15693.tag.Locks]_vars

\* C30, the part that holds: the two error responses are sent, locks, AFI,
\* DSFID and data are unchanged, and so are the selected and quiet flags when
\* the request has no select flag and is shorter than cmd[]
C30_ErrorAnsweredTagKept ==
    [][SimTagUnsupported \/ SimTagBlockUnavailable
          => /\ sim15693'.sent =
                   SimTagErrorResponse(IF SimTagUnsupported
                                       THEN ISO15693.ERROR_CMD_NOT_SUP
                                       ELSE ISO15693.ERROR_BLOCK_UNAVAILABLE)
             /\ sim15693'.tag = sim15693.tag
             /\ /\ ~BitSet(sim15693'.cmd[1], ISO15693.REQ_SELECT)
                /\ Len(sim15693'.cmd) < ISO15693_MAX_COMMAND_LENGTH
                => SimTagState(sim15693') = SimTagState(sim15693)]_vars

\* C30: an unsupported command with the select flag, shorter than cmd[], was
\* answered with the error response by a tag that is not selected any more
C30_SelectFlagUnselects ==
    /\ sim15693.pc = "loop"
    /\ sim15693.path = "switch"
    /\ sim15693.cmd[2] \notin SimTagImplemented
    /\ BitSet(sim15693.cmd[1], ISO15693.REQ_SELECT)
    /\ sim15693.oob = {}
    /\ sim15693.sent = SimTagErrorResponse(ISO15693.ERROR_CMD_NOT_SUP)
    /\ ~sim15693.selected

\* the received frame passed the length and CRC tests
SimTagRequestReceived == SimTagTurn /\ ~SimTagRefused(sim15693'.cmd)

\* the uid an addressed request names (cmd[2..9])
SimTagAddressee(cmd) == [i \in 1..8 |-> CmdByte(cmd, 1 + i)]

\* C31: in SimTagIso15693, after a StayQuiet has been accepted the tag sends no
\* response to any inventory request and to any unaddressed request, whatever
\* commands follow, until it accepts a Select or a ResetToReady; requests
\* addressed to its own uid are still processed while it is quiet.
C31_QuietUntilSelectOrReset ==
    [][SimTagRequestReceived /\ sim15693.stayQuiet
          => /\ \/ BitSet(sim15693'.cmd[1], ISO15693.REQ_INVENTORY)
                \/ ~BitSet(sim15693'.cmd[1], ISO15693.REQ_ADDRESS)
                => sim15693'.sent = <<>>
             /\ /\ ~BitSet(sim15693'.cmd[1], ISO15693.REQ_INVENTORY)
                /\ ~BitSet(sim15693'.cmd[1], ISO15693.REQ_SELECT)
                /\ BitSet(sim15693'.cmd[1], ISO15693.REQ_ADDRESS)
                /\ SimTagAddressee(sim15693'.cmd) = tagUid
                => sim15693'.path = "switch"]_vars

\* C31, the part that holds: while the quiet flag is set, a request without
\* the address bit (0x20) that is shorter than cmd[] gets no response, and a
\* request addressed to the tag's uid without select flag reaches the switch
C31_QuietFlagSilent ==
    [][SimTagRequestReceived /\ sim15693.quiet
          => /\ /\ ~BitSet(sim15693'.cmd[1], ISO15693.REQ_ADDRESS)
                /\ Len(sim15693'.cmd) < ISO15693_MAX_COMMAND_LENGTH
                => sim15693'.sent = <<>>
             /\ /\ ~BitSet(sim15693'.cmd[1], ISO15693.REQ_SELECT)
                /\ BitSet(sim15693'.cmd[1], ISO15693.REQ_ADDRESS)
                /\ SimTagAddressee(sim15693'.cmd) = tagUid
                => sim15693'.path = "switch"]_vars

\* C31: a quiet tag has answered a request with the inventory flag, with no
\* store outside cmd[] before
C31_QuietTagAnswersInventory ==
    /\ sim15693.pc = "loop"
    /\ sim15693.stayQuiet /\ sim15693.quiet
    /\ sim15693.oob = {}
    /\ BitSet(sim15693.cmd[1], ISO15693.REQ_INVENTORY)
    /\ sim15693.sent # <<>>

\* the data of block b (b = 0 is the first block)
SimTagBlock(tag, b) == SubSeq(tag.Data, b * SimBpP + 1, b * SimBpP + SimBpP)

\* the request reached the switch as a LockBlock of a block that is locked
SimTagLockAgain ==
    /\ SimTagTurn
    /\ sim15693'.path = "switch"
    /\ sim15693'.cmd[2] = ISO15693.LOCKBLOCK
    /\ SimTagBlockNumber(sim15693'.cmd) < SimPages
    /\ sim15693.tag.Locks[SimTagBlockNumber(sim15693'.cmd) + 1] # 0

\* C40: in SimTagIso15693, once LockBlock has succeeded for a block no later
\* WriteBlock changes that block's data, and a lock flag (block, AFI or DSFID)
\* that is set is never cleared by any command sequence; a second LockBlock on
\* the same block is answered with the error 'already locked'.
C40_LockedStaysLocked ==
    [][SimTagTurn
          => /\ \A b \in 0..(SimPages - 1) :
                   sim15693.tag.Locks[b + 1] # 0
                   => /\ SimTagBlock(sim15693'.tag, b) = SimTagBlock(sim15693.tag, b)
                      /\ sim15693'.tag.Locks[b + 1] # 0
             /\ sim15693.tag.AFILock # 0 => sim15693'.tag.AFILock # 0
             /\ sim15693.tag.DSFIDLock # 0 => sim15693'.tag.DSFIDLock # 0
             /\ SimTagLockAgain
                => sim15693'.sent =
                      SimTagErrorResponse(ISO15693.ERROR_BLOCK_LOCKED_ALREADY)]_vars

\* C40, the part that holds: no lock flag is ever cleared, a second LockBlock
\* is answered with 'already locked', and AFI and DSFID are kept once locked
C40_LockFlagsKept ==
    [][SimTagTurn
          => /\ \A b \in 0..(SimPages - 1) :
                   sim15693.tag.Locks[b + 1] # 0 => sim15693'.tag.Locks[b + 1] # 0
             /\ sim15693.tag.AFILock # 0
                => sim15693'.tag.AFILock # 0 /\ sim15693'.tag.AFI = sim15693.tag.AFI
             /\ sim15693.tag.DSFIDLock # 0
                => sim15693'.tag.DSFIDLock # 0 /\ sim15693'.tag.DSFID = sim15693.tag.DSFID
             /\ SimTagLockAgain
                => sim15693'.sent =
                      SimTagErrorResponse(ISO15693.ERROR_BLOCK_LOCKED_ALREADY)]_vars

\* C40: the first block is locked and holds the data of a WriteBlock that was
\* accepted after the lock
C40_LockedBlockWritten ==
    /\ sim15693.pc = "loop"
    /\ sim15693.path = "switch"
    /\ sim15693.cmd[2] = ISO15693.WRITEBLOCK
    /\ SimTagBlockNumber(sim15693.cmd) = 0
    /\ sim15693.tag.Locks[1] # 0
    /\ sim15693.sent = Iso15693AddCrc(<<ISO15693.NOERROR>>, 1)
    /\ SimTagBlock(sim15693.tag, 0) = [i \in 1..SimBpP |-> SimData]

(***************************************************************************)
(* Properties of selectIclassTag                                           *)
(***************************************************************************)
\* the k-th answer of the tag was a frame of exactly ten bytes
SelTenBytes(k) == selTag.answers[k].ret = 10 /\ Len(selTag.answers[k].resp) = 10

\* C32: selectIclassTag sends ActivateAll, then Identify, then Select, each
\* only after the previous response was received, and scheduled at that
\* response's EOF time plus the tag-to-reader delay; the Select payload is the
\* first 8 bytes of the Identify response; it returns true only if ActivateAll
\* was answered without error and Identify and Select were each answered with
\* exactly 10 bytes, and then the returned CSN is the first 8 bytes of the
\* Select response; on any failure it stops without sending the following
\* commands.
C32_SelectSequence ==
    /\ Len(selTag.sent) <= 3
    /\ Len(selTag.sent) <= Len(selTag.answers) + 1
    /\ Len(selTag.sent) >= 1 => selTag.sent[1].frame = <<ICLASS_CMD_ACTALL>>
    /\ Len(selTag.sent) >= 2
          => /\ selTag.sent[2].frame = <<ICLASS_CMD_READ_OR_IDENTIFY>>
             /\ selTag.answers[1].ret >= 0
             /\ selTag.sent[2].start_time =
                   selTag.answers[1].eof_time + DELAY_ICLASS_VICC_TO_VCD_READER
    /\ Len(selTag.sent) >= 3
          => /\ selTag.sent[3].frame =
                   <<ICLASS_CMD_SELECT>> \o SubSeq(selTag.answers[2].resp, 1, 8)
             /\ SelTenBytes(2)
             /\ selTag.sent[3].start_time =
                   selTag.answers[2].eof_time + DELAY_ICLASS_VICC_TO_VCD_READER
    /\ selTag.ret = "true"
          => /\ Len(selTag.sent) = 3 /\ Len(selTag.answers) = 3
             /\ selTag.answers[1].ret >= 0
             /\ SelTenBytes(2) /\ SelTenBytes(3)
             /\ selTag.card_data = SubSeq(selTag.answers[3].resp, 1, 8)
    /\ selTag.ret = "false"
          => /\ Len(selTag.sent) = Len(selTag.answers)
             /\ \/ Len(selTag.answers) = 1 /\ selTag.answers[1].ret < 0
                \/ Len(selTag.answers) \in {2, 3}
                   /\ selTag.answers[Len(selTag.answers)].ret # 10
    /\ selTag.pc = "done" <=> selTag.ret # "none"

\* C32: the call returned true after an Identify answer and a Select answer
\* with different CSNs
C32_Witness ==
    /\ selTag.pc = "done" /\ selTag.ret = "true"
    /\ Len(selTag.sent) = 3
    /\ selTag.sent[3].frame = <<ICLASS_CMD_SELECT>> \o SelAnticollCsn
    /\ selTag.card_data = SelCsn
    /\ selTag.sent[3].start_time > selTag.sent[2].start_time

\* C32: the call returned false after a Select answer that was not ten bytes
C32_WitnessFailure ==
    /\ selTag.pc = "done" /\ selTag.ret = "false"
    /\ Len(selTag.answers) = 3 /\ selTag.answers[3].ret = 11

(***************************************************************************)
(* Properties of the sniffer's reader-side decoder OutOfNDecoding          *)
(***************************************************************************)
\* a sample of the running sniffer is being handled
SnoopTurn == snoop.pc = "running" /\ snoop'.pc = "running"

\* the j-th nibble the sniffer hands to OutOfNDecoding: bits 4 and 5 of the
\* sample bytes 2j-2 and 2j-1, the first nibble of the first sample byte
SnoopNibble(j) ==
    LET s == SnoopWaves[snoop.wave].samples
    IN  (4 * (IF j = 1 THEN 0 ELSE (s[(2 * j) - 2] \div 16) % 4))
        + ((s[(2 * j) - 1] \div 16) % 4)

\* the decoder leaves STATE_UNSYNCD: the nibble before the one handed over
\* shows a drop and the eight nibbles before that one are all high
SnoopSyncedOnDrop ==
    LET j == (snoop.pos + 1) \div 2
    IN  /\ snoop.pos % 2 = 1
        /\ j >= 10
        /\ SnoopNibble(j - 1) # 15
        /\ \A i \in (j - 9)..(j - 2) : SnoopNibble(i) = 15
        /\ Uart'.state = "STATE_START_OF_COMMUNICATION"
        /\ Uart'.OutOfCnt = 4

\* the all-high nibbles the decoder is handed before the pause of the wave w:
\* the first nibble, of one sample byte, is not all high
SnoopSofHigh(w) == w.lead + w.n - 1

\* the drop position of the group that ends with this step: the one noted,
\* or 4 when none is noted and the coding changes with the fourth slot
SnoopSofCoding ==
    /\ Uart.nOutOfCnt = 3
    /\ \/ Uart.dropPosition = 3 /\ Uart'.OutOfCnt = 4
       \/ Uart.dropPosition = 0 /\ Uart'.OutOfCnt = 256
    /\ LET w == SnoopWaves[snoop.wave]
       IN  w.side = "sof" =>
              /\ SnoopSofHigh(w) >= 8
              /\ w.drops = (IF Uart'.OutOfCnt = 4 THEN {3} ELSE {4})

\* C33: OutOfNDecoding leaves Unsynced only on a nibble showing a drop that
\* follows at least 8 consecutive all-high nibbles; the coding is selected
\* only from the drop position within the first four slots, 3 for 1 out of
\* 4 and 4 for 1 out of 256; any other position or a second drop in the
\* group returns the decoder to Unsynced and no frame is logged.
C33_SofSelectsCoding ==
    [][SnoopTurn =>
          /\ (Uart.state = "STATE_UNSYNCD" /\ Uart'.state # "STATE_UNSYNCD")
                => SnoopSyncedOnDrop
          /\ (Uart.state = "STATE_START_OF_COMMUNICATION"
                 /\ Uart'.state = "STATE_RECEIVING") => SnoopSofCoding
          /\ Uart.state = "STATE_START_OF_COMMUNICATION"
                => /\ Uart'.state \in {"STATE_START_OF_COMMUNICATION",
                                       "STATE_RECEIVING", "STATE_UNSYNCD"}
                   /\ Uart'.state = "STATE_RECEIVING"
                         \/ snoop'.trace = snoop.trace
                   /\ (Uart.nOutOfCnt = 3 /\ Uart.posCnt = 1 /\ snoop.pos % 2 = 1)
                         => Uart'.state # "STATE_START_OF_COMMUNICATION"
          /\ (snoop'.pos > Len(SnoopWaves[snoop.wave].samples)
                 /\ SnoopWaves[snoop.wave].side = "sof"
                 /\ Uart'.state = "STATE_UNSYNCD")
                => \/ SnoopSofHigh(SnoopWaves[snoop.wave]) < 8
                   \/ SnoopWaves[snoop.wave].drops \notin {{3}, {4}}
          /\ (snoop'.pos > Len(SnoopWaves[snoop.wave].samples)
                 /\ SnoopWaves[snoop.wave].side = "sof"
                 /\ Uart'.state # "STATE_UNSYNCD")
                => /\ SnoopSofHigh(SnoopWaves[snoop.wave]) >= 8
                   /\ SnoopWaves[snoop.wave].drops \in {{3}, {4}}
      ]_vars

\* a start of frame with the drop in slot 4 has selected 1 out of 256
C33_Witness ==
    /\ snoop.pc = "running"
    /\ SnoopWaves[snoop.wave].side = "sof"
    /\ SnoopWaves[snoop.wave].drops = {4}
    /\ Uart.state = "STATE_RECEIVING"
    /\ Uart.OutOfCnt = 256

\* a start of frame with drops in slots 3 and 4 has been handled to its end
C33_WitnessSecondDrop ==
    /\ snoop.pc = "running"
    /\ SnoopWaves[snoop.wave].side = "sof"
    /\ SnoopSofHigh(SnoopWaves[snoop.wave]) = 8
    /\ SnoopWaves[snoop.wave].drops = {3, 4}
    /\ snoop.pos > Len(SnoopWaves[snoop.wave].samples)
    /\ Uart.state = "STATE_UNSYNCD"

(***************************************************************************)
(* Properties of GetIso15693AnswerFromTag on a stream without end          *)
(***************************************************************************)
\* the samples a decoder that has reached data reception handles at most
\* before it completes a frame, overflows or falls back: the second part of
\* the start of frame, the bits of max_len + 1 bytes and the two parts of
\* the end of frame, 8 samples each
TagReceiveBound(max_len) == 8 * ((8 * (max_len + 1)) + 3)

\* no iteration starts with more than timeout samples consumed and the
\* decoder still searching for the start of frame; past the timeout the
\* call is over within the bound
C34_TimeoutBound ==
    tag_pc = "running" =>
       /\ tag_in.pos - 1 > tag_in.timeout => ~TagSofSearch(DecodeTag)
       /\ tag_in.pos - 1 <= tag_in.timeout + TagReceiveBound(DecodeTag.max_len)
       /\ tag_ret = 0

\* the call is over: -1 after a timeout or an overrun, -2 after an
\* overflow, else the length of the frame
C34_Returned ==
    /\ tag_pc \in {"gotFrame", "timeout", "overrun"}
    /\ tag_pc = "timeout" => tag_ret = -1 /\ tag_in.pos - 1 > tag_in.timeout
    /\ tag_pc = "overrun" => tag_ret = -1
    /\ tag_pc = "gotFrame" => tag_ret = -2 \/ tag_ret >= 0

\* C34: GetIso15693AnswerFromTag always terminates on an unending sample
\* stream: with more than timeout samples consumed and the decoder not in
\* data reception it returns -1; a decoder in data reception completes a
\* frame, overflows or falls back to the search for the start of frame
\* within a bounded number of samples.
C34_Terminates ==
    /\ []C34_TimeoutBound
    /\ (tag_pc = "running") ~> C34_Returned

\* the call timed out after the decoder had fallen back from data reception
\* past the timeout
C34_Witness ==
    /\ tag_pc = "timeout"
    /\ tag_in.pos - 1 > tag_in.timeout + 8
    /\ tag_ret = -1

\* the unending stream of bits overflowed the buffer
C34_WitnessOverflow ==
    /\ tag_pc = "gotFrame"
    /\ tag_ret = -2
    /\ tag_in.timeout = 40

(***************************************************************************)
(* Properties of the cipher states and the key context of                  *)
(* doIClassSimulation                                                      *)
(***************************************************************************)
\* the cipher states of the current page are the derivation from the e-purse
\* that ReadCheck replies and the current diversified keys
CipherStatesDerived ==
    /\ resp_cc = CodeIso15693AsTag(card_challenge_data, 8)
    /\ CipherRead(cipher_state_KD, current_page)
          = {opt_doTagMAC_1(card_challenge_data, diversified_key_d)}
    /\ CipherRead(cipher_state_KC, current_page)
          = {opt_doTagMAC_1(card_challenge_data, diversified_key_c)}

\* C35: whenever doIClassSimulation waits for the next command, the debit
\* and credit cipher states of the current page equal the derivation from
\* the e-purse that ReadCheck currently replies and the current debit and
\* credit diversified keys.
C35_CipherStatesDerived == pc = "loop" => CipherStatesDerived

\* the same while no PageSel has left page 0
C35_DerivedOnPageZero == (pc = "loop" /\ current_page = 0) => CipherStatesDerived

\* every command but an answered PageSel keeps the cipher states derived
C35_DerivedKept ==
    [][(pc = "loop" /\ pc' = "loop" /\ CipherStatesDerived
           /\ current_page' = current_page) => CipherStatesDerived']_vars

\* the cipher state that Check uses is of the current page
ContextOfCurrentPage == cipher_state.idx = current_page

\* the cipher state and the key that Check uses are both debit or both credit
ContextOfOneKeyType == (cipher_state.arr = "KD") <=> (diversified_key = "d")

\* C36: the cipher state used by Check and the diversified key passed with
\* it always belong to the same key type and to the current page, after any
\* command sequence, including a ReadCheck-credit followed by a PageSel.
C36_CheckContext == pc = "loop" => ContextOfOneKeyType /\ ContextOfCurrentPage

\* the part of C36 on the page alone
C36_ContextOfCurrentPage == pc = "loop" => ContextOfCurrentPage

\* only an answered PageSel mixes the key types
C36_KeyTypeKept ==
    [][(pc = "loop" /\ pc' = "loop" /\ ContextOfOneKeyType
           /\ ~IsPageSel(receivedCmd')) => ContextOfOneKeyType']_vars

(***************************************************************************)
(* Properties of the personalization flag, of Read4 and of the capture     *)
(* records                                                                 *)
(***************************************************************************)
\* the personalization flag is bit 7 of byte 7 of block 1 of the current
\* page as page memory holds it
PersonalizationOfMemory ==
    \A conf \in EmReadSet(em_image, emulator, BlockAddr(current_page, 1)) :
        personalization_mode = BitSet(conf[8], 128)

\* C37: in full-simulation mode the personalization flag used by key
\* Updates always equals bit 7 of byte 7 of the current page's configuration
\* block as stored in page memory, after any command sequence, including an
\* Update that rewrites block 1.
C37_PersonalizationOfMemory ==
    (pc = "loop" /\ simulationMode = ICLASS_SIM_MODE_FULL) => PersonalizationOfMemory

\* every command but an Update of block 1 keeps the flag equal to page
\* memory, on a page inside the emulator memory
C37_FlagKept ==
    [][(pc = "loop" /\ pc' = "loop" /\ simulationMode = ICLASS_SIM_MODE_FULL
           /\ PersonalizationOfMemory
           /\ ~(IsUpdate(receivedCmd') /\ receivedCmd'[2] = 1)
           /\ BlockAddr(current_page', 1) < EmBlocks)
          => PersonalizationOfMemory']_vars

\* block blockNo of the current page with the keys hidden as Read block
\* hides them
Read4HiddenBlock(blockNo) ==
    IF IsKeyBlock(blockNo) THEN {FF8}
    ELSE EmReadSet(em_image, emulator, BlockAddr(current_page, blockNo))

\* the replies to Read4 of the four blocks from blockNo that do not depend
\* on the stored keys
Read4HiddenReplies(blockNo) ==
    {CodeIso15693AsTag(AppendCrc(b0 \o b1 \o b2 \o b3, 32), 34) :
        b0 \in Read4HiddenBlock(blockNo), b1 \in Read4HiddenBlock(blockNo + 1),
        b2 \in Read4HiddenBlock(blockNo + 2), b3 \in Read4HiddenBlock(blockNo + 3)}

\* C38: no Read4 reply contains the stored contents of block 3 or block 4 of
\* the current page: for every start block whose four-block window covers
\* block 3 or 4, the reply is independent of the stored key values.
C38_Read4HidesKeys ==
    [][(pc = "loop" /\ pc' = "loop" /\ IsRead4(receivedCmd')
           /\ \E i \in 0..3 : IsKeyBlock(receivedCmd'[2] + i))
          => modulated_response' \in {<<>>} \cup Read4HiddenReplies(receivedCmd'[2])]_vars

\* the command before this one was answered with the e-purse
EPurseJustSent ==
    /\ modulated_response = resp_cc
    /\ resp_cc = CodeIso15693AsTag(card_challenge_data, 8)
    /\ IsReadCheck(receivedCmd) \/ (IsReadBlock(receivedCmd) /\ receivedCmd[2] = 2)

\* a session of the credential capture ends on Check
CaptureEndsOnCheck ==
    /\ pc = "loop"
    /\ pc' = "returned"
    /\ simulationMode = ICLASS_SIM_MODE_EXIT_AFTER_MAC
    /\ HasMacBuf
    /\ IsCheck(receivedCmd')

\* C39: in credential-capture mode, when a session ends on Check, the first
\* 8 bytes of that CSN's 16-byte capture record equal the e-purse value most
\* recently sent to the reader before that Check, after any command
\* sequence including an Update of block 2; records of different CSNs never
\* overlap and at most 32 CSNs are simulated.  The e-purse is the one sent
\* in reply to the command just before the Check.
C39_RecordOfEPurseSent ==
    [][(CaptureEndsOnCheck /\ EPurseJustSent)
          => /\ SubSeq(mac_responses'[csn_i + 1], 1, 8) = card_challenge_data
             /\ \A k \in 1..Len(mac_responses) :
                   k # csn_i + 1 => mac_responses'[k] = mac_responses[k]
             /\ csn_i < 32]_vars

\* the same of a session without an accepted Update
C39_RecordOfEPurseKept ==
    [][(CaptureEndsOnCheck /\ EPurseJustSent /\ n_updates = 0)
          => /\ SubSeq(mac_responses'[csn_i + 1], 1, 8) = card_challenge_data
             /\ \A k \in 1..Len(mac_responses) :
                   k # csn_i + 1 => mac_responses'[k] = mac_responses[k]
             /\ csn_i < 32]_vars
=============================================================================
